---- MODULE Spec2Model ----
(***************************************************************************)
(* Triage Conversation Engine of CAHTBOT.ALPHA.                            *)
(*                                                                         *)
(* Texts are sequences of word tokens: two adjacent tokens are separated   *)
(* by one space, and the token "\n" is a line break.  Python's substring   *)
(* test `kw in text` is the contiguous-subsequence test on tokens.         *)
(* Confidence values are kept in tenths (0.7 is 7, 1.0 is 10).             *)
(***************************************************************************)
EXTENDS Integers, Sequences, FiniteSets, TLC

VARIABLES
    (* emergency classifier applied to drawn inputs *)
    c_text,      \* user_input / user_message
    c_meta,      \* metadata dict handed to assess_emergency_level
    c_level,     \* result of assess_emergency_level ("unset" before the call)
    c_kw,        \* result of detect_emergency_keywords ("unset" before the call)
    (* a user turn of render_main_application and a call of call_ai_streaming *)
    pc,          \* position of the turn / of the call
    caller,      \* "frontend" (render_main_application) or "direct"
    user_input,  \* content of the last user message
    phase,       \* the phase argument of call_ai_streaming
    groq_client, \* orchestrator.groq_client is not None
    gemini_model,\* orchestrator.gemini_model is not None
    current_phase_idx, \* st.session_state.current_phase_idx
    emergency_level,   \* st.session_state.emergency_level
    pending_survey,    \* opzioni of st.session_state.pending_survey, <<>> when None
    turn_level,  \* what assess_emergency_level returned at line 1854 in this turn
    full_response_str, \* text received from a provider
    success,     \* local flag of call_ai_streaming
    attempts,    \* log of the turn: classification, provider attempts, parse attempts
    yielded,     \* items yielded by call_ai_streaming, in order
    (* session handled by compat.update_session_with_user_input *)
    session_data, \* the legacy session dict
    last_merge,   \* the dict before the last update and the entities extracted
    (* one call of a pure function *)
    f_in,        \* the arguments
    f_out,       \* the value returned, once the call is done
    (* frontend step machine *)
    current_step,    \* st.session_state.current_step, the value of the TriageStep
    collected_data,  \* st.session_state.collected_data, keyed by step name
    step_completed,  \* st.session_state.step_completed, the steps marked True
    step_timestamps, \* st.session_state.step_timestamps, the steps that have an entry
    (* a session routed by the phase router *)
    t_state,     \* the TriageState of the session
    t_decision,  \* the last routing decision, "unset" before the first
    (* session_storage.SessionStorage and its callers *)
    st_file,     \* content of sessions.json: session id -> snapshot
    st_procs,    \* each caller's position in save/load/delete_session and its locals
    st_log,      \* the completed calls, in order of return, with what they returned
    st_now,      \* datetime.now()
    (* utils.id_manager *)
    id_file,     \* content of id_state.json
    id_lock,     \* the lock file exists
    id_call,     \* position and locals of the running get_next_session_id call
    id_log,      \* the ids returned by the successful calls, with the date of the call
    today,       \* the date of datetime.now()
    (* consent, what has left the application, and the page *)
    gdpr_consent, \* st.session_state.gdpr_consent
    egress,      \* "sync": BackendClient.sync posted a request; "log": a log entry was written
    page         \* what the last run of the script left on the page

classifyVars == <<c_text, c_meta, c_level, c_kw>>
turnVars == <<pc, caller, user_input, phase, groq_client, gemini_model, current_phase_idx,
              emergency_level, pending_survey, turn_level, full_response_str, success,
              attempts, yielded>>
slotVars == <<session_data, last_merge>>
fnVars == <<f_in, f_out>>
stepVars == <<current_step, collected_data, step_completed, step_timestamps>>
pathVars == <<t_state, t_decision>>
auxVars == <<fnVars, stepVars, pathVars>>
storeVars == <<st_file, st_procs, st_log, st_now>>
idVars == <<id_file, id_lock, id_call, id_log, today>>
uiVars == <<gdpr_consent, egress, page>>
extVars == <<storeVars, idVars, uiVars>>
dataVars == <<slotVars, extVars>>
vars == <<classifyVars, turnVars, dataVars, auxVars>>

(***************************************************************************)
(* Bounds                                                                  *)
(***************************************************************************)
MaxTextLen == 2      \* longest classifier input, in tokens
MaxTurnLen == 2      \* longest chat input of a turn, in tokens
MaxAreaLen == 2      \* longest clinical area given to the facility router, in tokens

(***************************************************************************)
(* Text helpers                                                            *)
(***************************************************************************)
\* str.lower() on one token
LowerTok(t) ==
    CASE t = "SUICIDIO" -> "suicidio"
      [] t = "Svenuto" -> "svenuto"
      [] t = "Hai" -> "hai"
      [] t = "LA" -> "la"
      [] t = "Diagnosi" -> "diagnosi"
      [] OTHER -> t

\* str.lower() on a text
Lower(text) == [i \in 1..Len(text) |-> LowerTok(text[i])]

\* `kw in text`
Contains(text, kw) ==
    \E i \in 0..(Len(text) - Len(kw)) :
        \A j \in 1..Len(kw) : text[i + j] = kw[j]

\* any(kw.lower() in text for kw in list)
AnyIn(text, kws) == \E kw \in kws : Contains(text, Lower(kw))

SeqsUpTo(S, n) == UNION {[1..k -> S] : k \in 0..n}

(***************************************************************************)
(* Emergency classifier: frontend.assess_emergency_level                   *)
(***************************************************************************)
RULES_RED ==
    { <<"dolore","toracico","intenso">>, <<"dolore","petto","insopportabile">>,
      <<"oppressione","torace">>, <<"difficoltà","respiratoria","grave">>,
      <<"non","riesco","respirare">>, <<"soffoco">>, <<"perdita","di","coscienza">>,
      <<"svenuto">>, <<"svenimento","improvviso">>, <<"convulsioni">>,
      <<"crisi","convulsiva">>, <<"attacco","epilettico">>, <<"emorragia","massiva">>,
      <<"sangue","abbondante">>, <<"emorragia","incontrollabile">>,
      <<"paralisi","improvvisa">>, <<"metà","corpo","bloccata">>,
      <<"braccio","gamba","non","si","muovono">> }

RULES_ORANGE ==
    { <<"dolore","addominale","acuto">>, <<"dolore","pancia","molto","forte">>,
      <<"addome","rigido">>, <<"trauma","cranico">>, <<"battuto","forte","testa">>,
      <<"caduta","testa">>, <<"febbre","alta","bambino">>, <<"febbre","39","neonato">>,
      <<"febbre","bambino","piccolo">>, <<"vomito","persistente">>,
      <<"vomito","continuo">>, <<"vomito","sangue">>, <<"dolore","molto","forte">>,
      <<"dolore","insopportabile">>, <<"dolore","lancinante">> }

RULES_BLACK ==
    { <<"suicidio">>, <<"uccidermi">>, <<"togliermi","la","vita">>, <<"farla","finita">>,
      <<"ammazzarmi">>, <<"voglio","morire">>, <<"non","voglio","più","vivere">>,
      <<"autolesionismo">>, <<"tagliarmi">>, <<"farmi","male","da","solo">>,
      <<"pensieri","suicidari">>, <<"ideazione","suicidaria">> }

\* metadata.get(...) with the defaults of the code; an empty dict is falsy
NoMeta == [present |-> FALSE, urgenza |-> 0, red_flags |-> <<>>, confidence |-> 0]

\* the part of assess_emergency_level that reads the AI metadata
MetaOrangeFirst(text, metadata) ==
    IF AnyIn(Lower(text), RULES_ORANGE) THEN "ORANGE"
    ELSE IF ~metadata.present THEN "none"
    ELSE IF metadata.urgenza >= 5 \/ Len(metadata.red_flags) >= 2 THEN "RED"
    ELSE IF metadata.urgenza = 4 \/ Len(metadata.red_flags) = 1 THEN "ORANGE"
    ELSE "none"

assess_after_keywords(text, metadata) ==
    LET text_lower == Lower(text) IN
    IF metadata.present /\ metadata.urgenza >= 5 /\ metadata.confidence >= 7 THEN "RED"
    ELSE IF metadata.present /\ (metadata.urgenza >= 5 \/ Len(metadata.red_flags) >= 2) THEN "RED"
    ELSE IF metadata.present /\ (metadata.urgenza = 4 \/ Len(metadata.red_flags) = 1) THEN "ORANGE"
    ELSE IF AnyIn(text_lower, RULES_ORANGE) THEN "ORANGE"
    ELSE "none"

assess_emergency_level(text, metadata) ==
    LET text_lower == Lower(text) IN
    IF AnyIn(text_lower, RULES_BLACK) THEN "BLACK"
    ELSE IF AnyIn(text_lower, RULES_RED) THEN "RED"
    ELSE assess_after_keywords(text, metadata)

(***************************************************************************)
(* Emergency classifier: smart_router.detect_emergency_keywords            *)
(***************************************************************************)
black_keywords ==
    { <<"suicidio">>, <<"uccidermi">>, <<"togliermi","la","vita">>, <<"farla","finita">>,
      <<"ammazzarmi">>, <<"voglio","morire">>, <<"non","voglio","più","vivere">>,
      <<"autolesionismo">>, <<"tagliarmi">>, <<"farmi","male">> }

router_red_keywords ==
    { <<"dolore","toracico">>, <<"dolore","petto">>, <<"oppressione","torace">>,
      <<"non","riesco","respirare">>, <<"soffoco">>, <<"difficoltà","respiratoria","grave">>,
      <<"perdita","di","coscienza">>, <<"svenuto">>, <<"svenimento">>,
      <<"convulsioni">>, <<"crisi","convulsiva">>, <<"emorragia","massiva">>,
      <<"sangue","abbondante">>, <<"paralisi">>, <<"metà","corpo","bloccata">> }

orange_keywords ==
    { <<"dolore","addominale","acuto">>, <<"dolore","pancia","molto","forte">>,
      <<"trauma","cranico">>, <<"battuto","forte","testa">>, <<"febbre","alta">>,
      <<"febbre","39">>, <<"febbre","40">>, <<"vomito","continuo">>, <<"vomito","sangue">>,
      <<"dolore","insopportabile">>, <<"dolore","lancinante">> }

detect_emergency_keywords(user_message) ==
    LET text_lower == Lower(user_message) IN
    IF user_message = <<>> THEN "GREEN"
    ELSE IF \E kw \in black_keywords : Contains(text_lower, kw) THEN "BLACK"
    ELSE IF \E kw \in router_red_keywords : Contains(text_lower, kw) THEN "RED"
    ELSE IF \E kw \in orange_keywords : Contains(text_lower, kw) THEN "ORANGE"
    ELSE "GREEN"

(***************************************************************************)
(* smart_router.SmartRouter.route                                          *)
(***************************************************************************)
AreaHas(area, word) == Contains(area, <<word>>)

\* the CAU rule is tested before the area rules
RouteCauFirst(location, urgenza, area) ==
    IF urgenza >= 4 THEN
        [nome |-> <<"Pronto","Soccorso">>, tipo |-> "PS",
         note |-> <<"Recati","immediatamente","in","ospedale","o","chiama","il","118.">>]
    ELSE IF urgenza = 3 THEN
        [nome |-> <<"CAU","(Continuità","Assistenziale","Urgenze)">>, tipo |-> "CAU",
         note |-> <<"Centro","di","Assistenza","Urgenza","per","valutazioni","senza","appuntamento.">>]
    ELSE IF AreaHas(area, "Psichiatria") \/ AreaHas(area, "Psichiatrica") \/ AreaHas(area, "Mentale") THEN
        [nome |-> <<"Centro","di","Salute","Mentale">>, tipo |-> "CSM",
         note |-> <<"Contatta","il","servizio","territoriale","per","una","valutazione.">>]
    ELSE IF AreaHas(area, "Ginecologia") \/ AreaHas(area, "Ostetricia") \/ AreaHas(area, "Gravidanza") THEN
        [nome |-> <<"Consultorio","Familiare">>, tipo |-> "Consultorio",
         note |-> <<"Prenota","una","visita","presso","il","consultorio","di","zona.">>]
    ELSE IF AreaHas(area, "Dipendenze") \/ AreaHas(area, "Tossicodipendenza") \/ AreaHas(area, "Alcol") THEN
        [nome |-> <<"SerD","(Servizio","Dipendenze)">>, tipo |-> "SerD",
         note |-> <<"Accesso","diretto","o","tramite","MMG","per","supporto","specialistico.">>]
    ELSE
        [nome |-> <<"Medico","di","Medicina","Generale">>, tipo |-> "MMG",
         note |-> <<"Contatta","il","tuo","medico","di","base","per","una","valutazione","nei","prossimi","giorni.">>]

route(location, urgenza, area) ==
    IF urgenza >= 4 THEN
        [nome |-> <<"Pronto","Soccorso">>, tipo |-> "PS",
         note |-> <<"Recati","immediatamente","in","ospedale","o","chiama","il","118.">>]
    ELSE IF AreaHas(area, "Psichiatria") \/ AreaHas(area, "Psichiatrica") \/ AreaHas(area, "Mentale") THEN
        [nome |-> <<"Centro","di","Salute","Mentale">>, tipo |-> "CSM",
         note |-> <<"Contatta","il","servizio","territoriale","per","una","valutazione.">>]
    ELSE IF AreaHas(area, "Ginecologia") \/ AreaHas(area, "Ostetricia") \/ AreaHas(area, "Gravidanza") THEN
        [nome |-> <<"Consultorio","Familiare">>, tipo |-> "Consultorio",
         note |-> <<"Prenota","una","visita","presso","il","consultorio","di","zona.">>]
    ELSE IF AreaHas(area, "Dipendenze") \/ AreaHas(area, "Tossicodipendenza") \/ AreaHas(area, "Alcol") THEN
        [nome |-> <<"SerD","(Servizio","Dipendenze)">>, tipo |-> "SerD",
         note |-> <<"Accesso","diretto","o","tramite","MMG","per","supporto","specialistico.">>]
    ELSE IF urgenza = 3 THEN
        [nome |-> <<"CAU","(Continuità","Assistenziale","Urgenze)">>, tipo |-> "CAU",
         note |-> <<"Centro","di","Assistenza","Urgenza","per","valutazioni","senza","appuntamento.">>]
    ELSE
        [nome |-> <<"Medico","di","Medicina","Generale">>, tipo |-> "MMG",
         note |-> <<"Contatta","il","tuo","medico","di","base","per","una","valutazione","nei","prossimi","giorni.">>]

(***************************************************************************)
(* model_orchestrator_v2.DiagnosisSanitizer                                *)
(***************************************************************************)
\* \s+ spans spaces and line breaks: the words of a text without its breaks
NoNL(text) == SelectSeq(text, LAMBDA t : t # "\n")

Diseases == {"infiammazione", "infezione", "patologia", "malattia"}

\* r"\bdiagnosi\b", r"\bprescrivo\b", r"\bterapia\b"
PatternWord(t) == \E i \in 1..Len(t) : t[i] \in {"diagnosi", "prescrivo", "terapia"}

\* r"\bhai\s+(la|il|un[\'a]? )\s+\w+": the third alternative needs two
\* whitespace characters after "un", which a single-spaced text never has
PatternHai(t) ==
    LET s == NoNL(t) IN
    \E i \in 1..(Len(s) - 2) : s[i] = "hai" /\ s[i + 1] \in {"la", "il"}

\* r"\bè\s+(sicuramente|probabilmente)\b"
PatternCertain(t) ==
    LET s == NoNL(t) IN
    \E i \in 1..(Len(s) - 1) : s[i] = "è" /\ s[i + 1] \in {"sicuramente", "probabilmente"}

\* r"\bprendi\s+\w+\s+mg\b"
PatternDose(t) ==
    LET s == NoNL(t) IN
    \E i \in 1..(Len(s) - 2) : s[i] = "prendi" /\ s[i + 2] = "mg"

\* r"\b(hai|sembra che tu abbia|potresti avere)\s+.*\b(infiammazione|...)\b":
\* `.` stops at a line break, \s+ does not
PatternDisease(t) ==
    \E e \in 1..Len(t) :
        /\ \/ t[e] = "hai"
           \/ e >= 4 /\ SubSeq(t, e - 3, e) = <<"sembra", "che", "tu", "abbia">>
           \/ e >= 2 /\ SubSeq(t, e - 1, e) = <<"potresti", "avere">>
        /\ \E j \in (e + 1)..Len(t) :
              /\ t[j] \in Diseases
              /\ \E k \in e..(j - 1) :
                    /\ \A m \in (e + 1)..k : t[m] = "\n"
                    /\ \A m \in (k + 1)..j : t[m] # "\n"

\* any(re.search(pattern, text_lower) for pattern in FORBIDDEN_PATTERNS)
Forbidden(testo) ==
    LET text_lower == Lower(testo) IN
    \/ PatternWord(text_lower)
    \/ PatternHai(text_lower)
    \/ PatternCertain(text_lower)
    \/ PatternDose(text_lower)
    \/ PatternDisease(text_lower)

SAFE_TEXT ==
    <<"In","base","ai","dati","raccolti,","la","situazione","merita","un",
      "approfondimento","clinico.","Potresti","descrivermi","meglio","da","quanto",
      "tempo","avverti","questi","sintomi?">>

sanitize(response) ==
    IF Forbidden(response.testo)
    THEN [response EXCEPT !.testo = SAFE_TEXT, !.confidence = 1]
    ELSE response

(***************************************************************************)
(* Provider output: a raw text and the JSON object it carries.  The pieces *)
(* of the raw text are the fence marker, the word json, white space and    *)
(* "{}", which stands for the serialized object `obj`.                     *)
(***************************************************************************)
Miss == [k |-> "missing"]
Null == [k |-> "null"]
Str(s) == [k |-> "str", v |-> s]
Num(n) == [k |-> "num", v |-> n]
Txt(t) == [k |-> "text", v |-> t]
List(l) == [k |-> "list", v |-> l]

LongWord == "parola-di-1001-caratteri"

\* len(testo): the words of the model have at most 24 characters
CharLen(t) ==
    IF \E i \in 1..Len(t) : t[i] = LongWord THEN 1001 ELSE 25 * Len(t)

\* re.sub over the pattern: fence, json, optional line break, space; or fence
\* ("<fence>" is the marker of three backquotes)
RECURSIVE StripFences(_)
StripFences(s) ==
    IF s = <<>> THEN <<>>
    ELSE IF Len(s) >= 4 /\ SubSeq(s, 1, 4) = <<"<fence>", "json", "\n", " ">>
         THEN StripFences(SubSeq(s, 5, Len(s)))
    ELSE IF Len(s) >= 3 /\ SubSeq(s, 1, 3) = <<"<fence>", "json", " ">>
         THEN StripFences(SubSeq(s, 4, Len(s)))
    ELSE IF s[1] = "<fence>" THEN StripFences(Tail(s))
    ELSE <<s[1]>> \o StripFences(Tail(s))

\* str.strip()
RECURSIVE Strip(_)
Strip(s) ==
    IF s = <<>> THEN <<>>
    ELSE IF s[1] \in {" ", "\n"} THEN Strip(Tail(s))
    ELSE IF s[Len(s)] \in {" ", "\n"} THEN Strip(SubSeq(s, 1, Len(s) - 1))
    ELSE s

clean_json(raw) == Strip(StripFences(raw))

\* json.loads(clean_json) returns the object
JsonLoads(raw) == clean_json(raw) = <<"{}">>

QuestionType == {"survey", "scale", "text"}

MAX_TESTO == 1000

\* TriageMetadata.clamp_urgenza
MaxUrgenza(v) == IF v < 1 THEN 1 ELSE v

clamp_urgenza(v) == IF v < 1 THEN 1 ELSE IF v > 5 THEN 5 ELSE v

\* pydantic accepts the fields of TriageResponse and TriageMetadata
AcceptAnyConfidence(data) ==
    /\ data.testo.k = "text" /\ CharLen(data.testo.v) <= MAX_TESTO
    /\ data.tipo_domanda \in QuestionType
    /\ data.urgenza.k = "num"
    /\ data.area.k = "text"
    /\ data.confidence.k = "num"

Validates(data) ==
    /\ data.testo.k = "text" /\ CharLen(data.testo.v) <= MAX_TESTO
    /\ data.tipo_domanda \in QuestionType
    /\ data.urgenza.k = "num"
    /\ data.area.k = "text"
    /\ data.confidence.k = "num" /\ data.confidence.v >= 0 /\ data.confidence.v <= 10

\* TriageResponse.validate_options: runs only on a supplied value
validate_options(tipo_domanda, v) ==
    IF v.k = "missing" THEN Null
    ELSE IF tipo_domanda = "survey" /\ (v.k = "null" \/ Len(v.v) < 2)
         THEN List(<<"Sì", "No", "Non so">>)
    ELSE v

\* the constructor call TriageResponse of the parsed data
TriageResponse(data) ==
    [testo |-> data.testo.v,
     tipo_domanda |-> data.tipo_domanda,
     opzioni |-> validate_options(data.tipo_domanda, data.opzioni),
     fase_corrente |-> data.fase_corrente,
     urgenza |-> clamp_urgenza(data.urgenza.v),
     area |-> data.area.v,
     red_flags |-> data.red_flags,
     confidence |-> data.confidence.v,
     fallback_used |-> FALSE]

\* ModelOrchestrator._get_safe_fallback_response
FALLBACK_TEXT ==
    <<"Sto","analizzando","i","dati","raccolti.","Potresti","descrivere","con","più",
      "precisione","come","ti","senti","in","questo","momento?">>

safe_fallback_response ==
    [testo |-> FALLBACK_TEXT, tipo_domanda |-> "text", opzioni |-> Null,
     fase_corrente |-> "ANAMNESIS", urgenza |-> 3, area |-> <<"Generale">>,
     red_flags |-> <<>>, confidence |-> 0, fallback_used |-> TRUE]

\* ModelOrchestrator._check_emergency_triggers: the keyword list, in order
red_keywords ==
    << <<"dolore","toracico">>, <<"dolore","petto">>, <<"oppressione","torace">>,
       <<"non","riesco","respirare">>, <<"non","riesco","a","respirare">>, <<"soffoco">>,
       <<"difficoltà","respiratoria","grave">>, <<"perdita","di","coscienza">>,
       <<"svenuto">>, <<"svenimento">>, <<"convulsioni">>, <<"crisi","convulsiva">>,
       <<"emorragia","massiva">>, <<"sangue","abbondante">>, <<"paralisi">>,
       <<"metà","corpo","bloccata">> >>

EMERGENCY_TEXT == <<"Rilevata","possibile","emergenza.","Chiama","immediatamente","il","118.">>

check_emergency_triggers(user_message) ==
    LET text_lower == Lower(user_message)
        hits == {i \in 1..Len(red_keywords) : Contains(text_lower, red_keywords[i])}
    IN IF user_message = <<>> \/ hits = {} THEN 0
       ELSE CHOOSE i \in hits : \A j \in hits : i <= j

emergency_response(i) ==
    [testo |-> EMERGENCY_TEXT, tipo_domanda |-> "text", opzioni |-> Null,
     fase_corrente |-> "EMERGENCY_OVERRIDE", urgenza |-> 5, area |-> <<"Emergenza">>,
     red_flags |-> <<red_keywords[i]>>, confidence |-> 10, fallback_used |-> FALSE]

\* the text appended in phase DISPOSITION (call_ai_streaming, line 418)
StructureText(structure) ==
    <<"\n", "\n", "Struttura", "consigliata:">> \o structure.nome \o <<"\n">> \o structure.note

\* the received text is parsed whether or not the provider call succeeded
UsableAnyText(ok, raw) == raw.text # <<>>

\* line 393: `if success and full_response_str`
Usable(ok, raw) == ok /\ raw.text # <<>>

\* lines 393-436 of call_ai_streaming: the final response for a received text
FinalResponse(ok, raw, ph) ==
    IF Usable(ok, raw) /\ JsonLoads(raw.text) /\ Validates(raw.obj)
    THEN LET response_obj == sanitize(TriageResponse(raw.obj))
             structure == route(<<"Bologna">>, response_obj.urgenza, response_obj.area)
         IN IF ph = "DISPOSITION"
            THEN [response_obj EXCEPT !.testo = @ \o StructureText(structure)]
            ELSE response_obj
    ELSE safe_fallback_response

(***************************************************************************)
(* Inputs                                                                  *)
(***************************************************************************)
ClassifyVocab == {"ho", "suicidio", "SUICIDIO", "svenuto", "paralisi", "dolore",
                  "insopportabile", "febbre", "alta"}

ClassifyTexts == SeqsUpTo(ClassifyVocab, MaxTextLen)

MetaInputs ==
    {NoMeta} \cup
    [present : {TRUE}, urgenza : 0..6,
     red_flags : {<<>>, <<"febbre">>, <<"febbre", "dispnea">>, <<"febbre", "dispnea", "trauma">>},
     confidence : {0, 7, 10}]

TurnVocab == {"attacco", "epilettico", "svenuto"}

ChatInputs ==
    (SeqsUpTo(TurnVocab, MaxTurnLen) \ {<<>>})
        \cup {<<"<b>">>, <<"attacco", "<b>", "epilettico">>, <<"Svenuto">>}

PHASES == <<"IDENTIFICATION", "ANAMNESIS", "SAFETY_CHECK", "LOGISTICS", "DISPOSITION">>

PhaseInputs == {PHASES[i] : i \in 1..Len(PHASES)}

BodyDefault ==
    [testo |-> Txt(<<"Come", "ti", "senti?">>), tipo_domanda |-> "text", opzioni |-> Miss,
     fase_corrente |-> "ANAMNESIS", urgenza |-> Num(3), area |-> Txt(<<"Generale">>),
     confidence |-> Num(5), red_flags |-> <<>>]

TestoInputs ==
    {Txt(<<"Come", "ti", "senti?">>), Txt(<<"Hai", "LA", "polmonite">>),
     Txt(<<"forse", "hai", "la">>), Txt(<<"serve", "una", "Diagnosi">>),
     Txt(<<"potresti", "avere", "una", "infezione">>), Txt(<<LongWord>>), Miss}

UrgenzaInputs == {Miss, Str("alta"), Num(0), Num(3), Num(9)}

ConfidenceInputs == {Miss, Str("alta"), Num(-1), Num(0), Num(5), Num(10), Num(11)}

BodiesMeta ==
    {[BodyDefault EXCEPT !.testo = t, !.urgenza = u, !.confidence = c] :
        t \in TestoInputs, u \in UrgenzaInputs, c \in ConfidenceInputs}

BodiesShape ==
    {[BodyDefault EXCEPT !.tipo_domanda = q, !.opzioni = o, !.area = a, !.urgenza = Num(u)] :
        q \in {"survey", "scale", "text", "confirmation"},
        o \in {Miss, Null, List(<<>>), List(<<"Sì">>), List(<<"Lieve", "Forte">>)},
        a \in {Txt(<<"Generale">>), Txt(<<"Salute", "Mentale">>), Txt(<<"Ginecologia">>),
               Txt(<<"Dipendenze">>), Miss},
        u \in {2, 4}}

BodiesFlags ==
    {[BodyDefault EXCEPT !.red_flags = f, !.urgenza = Num(u)] :
        f \in {<<"febbre">>, <<"febbre", "dispnea">>}, u \in {2, 5}}

Plain(b) == [text |-> <<"{}">>, obj |-> b]

EmptyRaw == [text |-> <<>>, obj |-> BodyDefault]

TruncatedRaw == [text |-> <<"{">>, obj |-> BodyDefault]

WrappedRaws ==
    {[text |-> w, obj |-> BodyDefault] :
        w \in {<<"<fence>", "{}", "<fence>">>,
               <<"<fence>", "json", "\n", "{}", "\n", "<fence>">>,
               <<"<fence>", "json", " ", "{}", "<fence>">>,
               <<"<fence>", "json", "\n", " ", "{}", "\n", "<fence>">>,
               <<"Ecco", "la", "risposta:", "{}">>,
               <<" ", "{}", "\n">>}}

\* what a provider may send back
ProviderOutputs ==
    {Plain(b) : b \in BodiesMeta \cup BodiesShape \cup BodiesFlags} \cup WrappedRaws \cup {EmptyRaw}

TurnOutputs ==
    {Plain(b) : b \in BodiesShape \cup BodiesFlags} \cup {EmptyRaw, TruncatedRaw}

(***************************************************************************)
(* Specification of the classifier applied to drawn inputs                 *)
(***************************************************************************)
TurnOff ==
    /\ pc = "off" /\ caller = "none" /\ user_input = <<>> /\ phase = "none"
    /\ groq_client = FALSE /\ gemini_model = FALSE /\ current_phase_idx = 0
    /\ emergency_level = "none" /\ pending_survey = <<>> /\ turn_level = "none"
    /\ full_response_str = EmptyRaw /\ success = FALSE /\ attempts = <<>>
    /\ yielded = <<>>

ClassifyOff == c_text = <<>> /\ c_meta = NoMeta /\ c_level = "unset" /\ c_kw = "unset"

SlotsOff == session_data = <<>> /\ last_merge = <<>>

NotCalled == [done |-> FALSE]

Returned(v) == [done |-> TRUE, v |-> v]

FnOff == f_in = <<>> /\ f_out = NotCalled

StepsOff ==
    current_step = 0 /\ collected_data = <<>> /\ step_completed = {} /\ step_timestamps = {}

PathOff == t_state = <<>> /\ t_decision = "unset"

AuxOff == FnOff /\ StepsOff /\ PathOff

StoreOff == st_file = <<>> /\ st_procs = <<>> /\ st_log = <<>> /\ st_now = 0

IdOff == id_file = <<>> /\ id_lock = "none" /\ id_call = <<>> /\ id_log = <<>> /\ today = 0

UiOff == gdpr_consent = FALSE /\ egress = {} /\ page = "disclaimer"

ExtOff == StoreOff /\ IdOff /\ UiOff

DataOff == SlotsOff /\ ExtOff

InitClassify ==
    /\ c_text \in ClassifyTexts
    /\ c_meta \in MetaInputs
    /\ c_level = "unset"
    /\ c_kw = "unset"
    /\ TurnOff /\ DataOff /\ AuxOff

Assess ==
    /\ c_level = "unset"
    /\ c_level' = assess_emergency_level(c_text, c_meta)
    /\ UNCHANGED <<c_text, c_meta, c_kw, turnVars, dataVars, auxVars>>

Detect ==
    /\ c_kw = "unset"
    /\ c_kw' = detect_emergency_keywords(c_text)
    /\ UNCHANGED <<c_text, c_meta, c_level, turnVars, dataVars, auxVars>>

NextClassify == Assess \/ Detect

SpecClassify == InitClassify /\ [][NextClassify]_vars

(***************************************************************************)
(* C1                                                                      *)
(***************************************************************************)
Rank(level) ==
    CASE level = "BLACK" -> 3
      [] level = "RED" -> 2
      [] level = "ORANGE" -> 1
      [] OTHER -> 0

\* the levels whose rule matches for assess_emergency_level
MatchingLevels(text, meta) ==
    {"none"}
    \cup {l \in {"BLACK"} : AnyIn(Lower(text), RULES_BLACK)}
    \cup {l \in {"RED"} : \/ AnyIn(Lower(text), RULES_RED)
                          \/ meta.present /\ meta.urgenza >= 5
                          \/ meta.present /\ Len(meta.red_flags) >= 2}
    \cup {l \in {"ORANGE"} : \/ AnyIn(Lower(text), RULES_ORANGE)
                             \/ meta.present /\ meta.urgenza = 4
                             \/ meta.present /\ Len(meta.red_flags) = 1}

\* the levels whose keyword list matches for detect_emergency_keywords
MatchingKeywordLevels(text) ==
    {"GREEN"}
    \cup {l \in {"BLACK"} : AnyIn(Lower(text), black_keywords)}
    \cup {l \in {"RED"} : AnyIn(Lower(text), router_red_keywords)}
    \cup {l \in {"ORANGE"} : AnyIn(Lower(text), orange_keywords)}

Highest(levels) == CHOOSE l \in levels : \A m \in levels : Rank(m) <= Rank(l)

orchFrame == <<classifyVars, dataVars, auxVars, caller, user_input, phase, groq_client, gemini_model,
               current_phase_idx, emergency_level, pending_survey, turn_level>>

TextItem(t) == [kind |-> "text", testo |-> t]
ResponseItem(r) == [kind |-> "response", response |-> r]

PrimaryConfigured(groq) == groq

\* lines 334-352: the emergency triggers, then the first provider call
CheckEmergency ==
    /\ pc = "start"
    /\ LET i == check_emergency_triggers(user_input) IN
       IF i # 0
       THEN /\ yielded' = <<TextItem(EMERGENCY_TEXT), ResponseItem(emergency_response(i))>>
            /\ attempts' = Append(attempts, "check")
            /\ pc' = "returned"
       ELSE /\ yielded' = <<>>
            /\ IF PrimaryConfigured(groq_client)
               THEN attempts' = attempts \o <<"check", "groq">> /\ pc' = "groq_create"
               ELSE attempts' = Append(attempts, "check") /\ pc' = "after_groq"
    /\ full_response_str' = EmptyRaw
    /\ success' = FALSE
    /\ UNCHANGED orchFrame

\* lines 355-363: create() returned the stream within the 60 seconds
GroqCreated ==
    /\ pc = "groq_create"
    /\ pc' = "groq_stream"
    /\ UNCHANGED <<orchFrame, full_response_str, success, attempts, yielded>>

\* lines 373-374: wait_for cancels create() after 60 seconds
GroqTimeout ==
    /\ pc = "groq_create"
    /\ pc' = "after_groq"
    /\ attempts' = Append(attempts, "groq_timeout")
    /\ UNCHANGED <<orchFrame, full_response_str, success, yielded>>

\* lines 375-376: create() or the stream raised; the tokens read so far stay
GroqError ==
    /\ pc \in {"groq_create", "groq_stream"}
    /\ \E partial \in {EmptyRaw, TruncatedRaw, Plain(BodyDefault)} :
          /\ pc = "groq_create" => partial = EmptyRaw
          /\ full_response_str' = partial
    /\ pc' = "after_groq"
    /\ attempts' = Append(attempts, "groq_error")
    /\ UNCHANGED <<orchFrame, success, yielded>>

\* lines 366-371: the stream ended, all tokens were appended
GroqStreamEnd(outputs) ==
    /\ pc = "groq_stream"
    /\ \E r \in outputs : full_response_str' = r
    /\ success' = TRUE
    /\ pc' = "after_groq"
    /\ attempts' = Append(attempts, "groq_ok")
    /\ UNCHANGED <<orchFrame, yielded>>

\* the second provider is tried although the first one succeeded
SecondaryAlways(ok, gemini) == gemini

SecondaryNeeded(ok, gemini) == ~ok /\ gemini

\* line 378
AfterGroq ==
    /\ pc = "after_groq"
    /\ IF SecondaryNeeded(success, gemini_model)
       THEN attempts' = Append(attempts, "gemini") /\ pc' = "gemini"
       ELSE attempts' = attempts /\ pc' = "parse"
    /\ UNCHANGED <<orchFrame, full_response_str, success, yielded>>

\* lines 386-388
GeminiReturn(outputs) ==
    /\ pc = "gemini"
    /\ \E r \in outputs : full_response_str' = r
    /\ success' = TRUE
    /\ pc' = "parse"
    /\ attempts' = Append(attempts, "gemini_ok")
    /\ UNCHANGED <<orchFrame, yielded>>

\* lines 390-391
GeminiError ==
    /\ pc = "gemini"
    /\ pc' = "parse"
    /\ attempts' = Append(attempts, "gemini_error")
    /\ UNCHANGED <<orchFrame, full_response_str, success, yielded>>

\* lines 393-436: parse, validate, sanitize, route, or fall back
Finish ==
    /\ pc = "parse"
    /\ LET tried == Usable(success, full_response_str)
           r == FinalResponse(success, full_response_str, phase)
       IN /\ attempts' = attempts \o (IF tried THEN <<"parse">> ELSE <<>>)
                                   \o (IF r.fallback_used THEN <<"fallback">> ELSE <<>>)
          /\ yielded' = <<TextItem(r.testo), ResponseItem(r)>>
    /\ pc' = "returned"
    /\ UNCHANGED <<orchFrame, full_response_str, success>>

(***************************************************************************)
(* Specification of one call of call_ai_streaming with drawn arguments     *)
(***************************************************************************)
InitOrch ==
    /\ pc = "start"
    /\ caller = "direct"
    /\ user_input \in SeqsUpTo(TurnVocab, MaxTurnLen)
    /\ phase \in PhaseInputs
    /\ groq_client \in BOOLEAN
    /\ gemini_model \in BOOLEAN
    /\ current_phase_idx = 0
    /\ emergency_level = "none"
    /\ pending_survey = <<>>
    /\ turn_level = "none"
    /\ full_response_str = EmptyRaw
    /\ success = FALSE
    /\ attempts = <<>>
    /\ yielded = <<>>
    /\ ClassifyOff /\ DataOff /\ AuxOff

NextOrch ==
    \/ CheckEmergency
    \/ GroqCreated
    \/ GroqTimeout
    \/ GroqError
    \/ GroqStreamEnd(ProviderOutputs)
    \/ AfterGroq
    \/ GeminiReturn(ProviderOutputs)
    \/ GeminiError
    \/ Finish

SpecOrch == InitOrch /\ [][NextOrch]_vars

\* the steps the orchestrator takes by itself, and the 60 second timer
FairOrch ==
    /\ SpecOrch
    /\ WF_vars(CheckEmergency)
    /\ WF_vars(GroqTimeout)
    /\ WF_vars(AfterGroq)
    /\ WF_vars(Finish)

(***************************************************************************)
(* Claims about one call of call_ai_streaming                              *)
(***************************************************************************)
Count(log, e) == Cardinality({i \in 1..Len(log) : log[i] = e})

Has(log, e) == \E i \in 1..Len(log) : log[i] = e

Responses == {yielded[i].response : i \in {j \in 1..Len(yielded) : yielded[j].kind = "response"}}

Texts == {yielded[i].testo : i \in {j \in 1..Len(yielded) : yielded[j].kind = "text"}}
             \cup {r.testo : r \in Responses}

\* the provider text was parsed and accepted, and it matched a forbidden pattern
ProviderTextMatched ==
    /\ success /\ JsonLoads(full_response_str.text) /\ Validates(full_response_str.obj)
    /\ Forbidden(full_response_str.obj.testo.v)

\* C4: no yielded text contains a forbidden pattern, and when the provider
\* text matched one, the yielded text is the fixed safe message with
\* confidence 0.1, in every phase.
C4_SanitizedOutput ==
    pc = "returned" /\ check_emergency_triggers(user_input) = 0 =>
        /\ \A t \in Texts : ~Forbidden(t)
        /\ ProviderTextMatched =>
              /\ \A t \in Texts : t = SAFE_TEXT
              /\ \A r \in Responses : r.confidence = 1

\* C6: every yielded TriageResponse has urgenza in 1..5 and confidence in [0,1]
C6_MetadataInRange ==
    \A r \in Responses : r.urgenza \in 1..5 /\ r.confidence \in 0..10

\* the provider sent urgenza 9 and the response was accepted
C6_Witness ==
    /\ pc = "returned"
    /\ success /\ full_response_str.obj.urgenza = Num(9)
    /\ \E r \in Responses : ~r.fallback_used /\ r.urgenza = 5

\* the value the specification keeps for a provider's urgenza and confidence
DefaultedUrgenza(u) == IF u.k = "num" THEN clamp_urgenza(u.v) ELSE 3

DefaultedConfidence(c) ==
    IF c.k = "num" THEN (IF c.v < 0 THEN 0 ELSE IF c.v > 10 THEN 10 ELSE c.v) ELSE 5

\* the provider's JSON was received and its other fields are accepted
OnlyMetadataInDoubt ==
    /\ pc = "returned" /\ check_emergency_triggers(user_input) = 0
    /\ success /\ JsonLoads(full_response_str.text)
    /\ full_response_str.obj.testo.k = "text"
    /\ CharLen(full_response_str.obj.testo.v) <= MAX_TESTO
    /\ ~Forbidden(full_response_str.obj.testo.v)
    /\ full_response_str.obj.tipo_domanda \in QuestionType
    /\ full_response_str.obj.area.k = "text"

\* C20: a provider response whose urgenza or confidence is absent or not a
\* number is kept with the default (3, 0.5), and one out of range is kept
\* with the value clamped into 1..5 and [0,1]; it is never replaced by the
\* generic fallback.
C20_DefaultsAndClamps ==
    OnlyMetadataInDoubt =>
        /\ Responses # {}
        /\ \A r \in Responses :
              /\ ~r.fallback_used
              /\ r.urgenza = DefaultedUrgenza(full_response_str.obj.urgenza)
              /\ r.confidence = DefaultedConfidence(full_response_str.obj.confidence)

\* C7: the primary provider is attempted first, the secondary only after the
\* primary failed or when it is not configured, the fallback only when no
\* provider output was usable, and each provider at most once.
C7_ChainOrder ==
    /\ Count(attempts, "groq") <= 1
    /\ Count(attempts, "gemini") <= 1
    /\ groq_client /\ check_emergency_triggers(user_input) = 0 /\ pc # "start"
          => Has(attempts, "groq")
    /\ \A i \in 1..Len(attempts) :
          attempts[i] = "gemini" =>
              /\ \A j \in 1..Len(attempts) : attempts[j] = "groq" => j < i
              /\ ~Has(attempts, "groq_ok")
              /\ groq_client => \E j \in 1..(i - 1) : attempts[j] \in {"groq_timeout", "groq_error"}
    /\ Has(attempts, "fallback") =>
          ~(success /\ JsonLoads(full_response_str.text) /\ Validates(full_response_str.obj))

\* the primary timed out, the secondary answered
C7_Witness ==
    /\ pc = "returned"
    /\ attempts = <<"check", "groq", "groq_timeout", "gemini", "gemini_ok", "parse">>

\* C8: when every configured provider failed or returned nothing, the call ends
\* with the deterministic fallback response.
C8_FallbackWhenAllFail ==
    /\ pc = "returned"
    /\ check_emergency_triggers(user_input) = 0
    /\ \/ ~Has(attempts, "groq_ok") /\ ~Has(attempts, "gemini_ok")
       \/ full_response_str.text = <<>>
    => /\ Len(yielded) = 2
       /\ yielded[1] = TextItem(FALLBACK_TEXT)
       /\ yielded[2].kind = "response"
       /\ yielded[2].response.urgenza = 3
       /\ yielded[2].response.confidence = 0
       /\ yielded[2].response.fallback_used
       /\ yielded[2].response.tipo_domanda = "text"

\* the stream broke after a complete object had arrived, then the secondary failed
C8_Witness ==
    /\ pc = "returned"
    /\ Has(attempts, "groq_error") /\ Has(attempts, "gemini_error")
    /\ full_response_str = Plain(BodyDefault)
    /\ yielded[2].response.fallback_used

\* C9: every call eventually returns, also when a provider never answers.
C9_CallReturns == <>(pc = "returned")

\* C10: the fallback follows a parse or validation failure only after the
\* retry budget of 2 attempts is used up.
C10_RetryBeforeFallback ==
    pc = "returned" /\ Has(attempts, "parse") /\ Has(attempts, "fallback")
        => Count(attempts, "parse") = 2

\* C11: every yielded response of kind survey carries a list of at least two
\* options, whatever the provider sent for opzioni (a short list, null or no
\* field at all).
C11_SurveyHasOptions ==
    \A r \in Responses :
        r.tipo_domanda = "survey" => r.opzioni.k = "list" /\ Len(r.opzioni.v) >= 2

(***************************************************************************)
(* A user turn of frontend.render_main_application (STEP 6)                *)
(*   pc = "idle"      the script waits for the chat input                  *)
(*   pc = "assessed"  lines 1851-1859 done, stream_ai_response not called  *)
(*   then the positions of call_ai_streaming, collected by the bridge      *)
(***************************************************************************)
\* DataSecurity.sanitize_input: a tag is removed and leaves its two spaces
\* (an empty word); strip() removes them at both ends.  The cut at 2000
\* characters is never reached by the inputs drawn here.
RECURSIVE StripEmpty(_)
StripEmpty(t) ==
    IF t = <<>> THEN <<>>
    ELSE IF t[1] = "" THEN StripEmpty(Tail(t))
    ELSE IF t[Len(t)] = "" THEN StripEmpty(SubSeq(t, 1, Len(t) - 1))
    ELSE t

sanitize_input(text) ==
    StripEmpty([i \in 1..Len(text) |-> IF text[i] = "<b>" THEN "" ELSE text[i]])

\* the stream is requested right after the input, without the classification
SkipAssess(lvl) == <<>>

\* line 1854 runs before line 1873
AssessFirst(lvl) == <<"assess">>

\* the chat input is shown whatever the session holds
ChatInputAlways(survey) == TRUE

\* line 1849: `if not st.session_state.pending_survey`
ChatInputShown(survey) == survey = <<>>

\* the application is rendered without asking for consent
ConsentNotAsked(consent) == TRUE

\* lines 1807-1814: without consent only the disclaimer is rendered
ConsentGiven(consent) == consent

\* lines 1841-1846: the last step is completed, the summary is shown and the
\* run stops
\* (6 is TriageStep.DISPOSITION)
TriageDone == current_step = 6 /\ 6 \in step_completed

\* lines 1811-1813: the button "Accetto e Inizio Triage"
AcceptGdpr ==
    /\ pc = "idle"
    /\ ~gdpr_consent
    /\ gdpr_consent' = TRUE
    /\ page' = "chat"
    /\ UNCHANGED <<classifyVars, turnVars, slotVars, storeVars, idVars, egress, auxVars>>

\* BackendClient.sync, lines 606-609: nothing is posted without consent
sync(consent) == IF consent THEN {"sync"} ELSE {}

\* save_structured_log, lines 1309-1311: nothing is written without consent
save_structured_log(consent) == IF consent THEN {"log"} ELSE {}

\* lines 1849-1859: chat input, sanitization, emergency check, message appended
ChatInputFrom(inputs) ==
    /\ pc = "idle"
    /\ ConsentGiven(gdpr_consent)
    /\ ~TriageDone
    /\ ChatInputShown(pending_survey)
    /\ groq_client \/ gemini_model
    /\ \E raw_input \in inputs :
          LET text == sanitize_input(raw_input)
              level == assess_emergency_level(text, NoMeta)
          IN /\ user_input' = text
             /\ turn_level' = level
             /\ emergency_level' = IF level # "none" THEN level ELSE emergency_level
             /\ attempts' = AssessFirst(level)
    /\ caller' = "frontend"
    /\ yielded' = <<>>
    /\ full_response_str' = EmptyRaw
    /\ success' = FALSE
    /\ pc' = "assessed"
    /\ UNCHANGED <<classifyVars, dataVars, auxVars, phase, groq_client, gemini_model,
                   current_phase_idx, pending_survey>>

ChatInput == ChatInputFrom(ChatInputs)

\* lines 1872-1878 and bridge.stream_ai_response: the orchestrator is called
StartStream ==
    /\ pc = "assessed"
    /\ phase' = PHASES[current_phase_idx + 1]
    /\ pc' = "start"
    /\ UNCHANGED <<classifyVars, dataVars, auxVars, caller, user_input, groq_client, gemini_model,
                   current_phase_idx, emergency_level, pending_survey, turn_level,
                   full_response_str, success, attempts, yielded>>

\* final_obj["metadata"] as assess_emergency_level reads it
MetaOf(r) ==
    [present |-> TRUE, urgenza |-> r.urgenza, red_flags |-> r.red_flags,
     confidence |-> r.confidence]

\* lines 1936-1988: the buttons of the survey are drawn in the run that
\* received the response, where none of them is pressed: the `elif` of line
\* 1988 then reads the local current_step, which is assigned only after a
\* press (line 1945), and the run ends with UnboundLocalError
RenderSurvey(survey) == IF survey # <<>> THEN "error" ELSE "chat"

\* lines 1883-1932: the items are consumed, the metadata assessed, the survey
\* kept, and the rest of the run
Consume ==
    /\ pc = "returned"
    /\ caller = "frontend"
    /\ LET final_obj == yielded[Len(yielded)].response
           level == assess_emergency_level(user_input, MetaOf(final_obj))
       IN /\ emergency_level' = IF level # "none" THEN level ELSE emergency_level
          /\ pending_survey' = IF final_obj.opzioni.k = "list" THEN final_obj.opzioni.v ELSE <<>>
    /\ egress' = egress \cup sync(gdpr_consent)
    /\ page' = RenderSurvey(pending_survey')
    /\ pc' = "idle"
    /\ UNCHANGED <<classifyVars, slotVars, storeVars, idVars, gdpr_consent, auxVars, caller,
                   user_input, phase, groq_client, gemini_model, current_phase_idx, turn_level,
                   full_response_str, success, attempts, yielded>>

InitTurn ==
    /\ pc = "idle"
    /\ caller = "none"
    /\ user_input = <<>>
    /\ phase = "none"
    /\ groq_client \in BOOLEAN
    /\ gemini_model \in BOOLEAN
    /\ current_phase_idx = 0
    /\ emergency_level = "none"
    /\ pending_survey = <<>>
    /\ turn_level = "none"
    /\ full_response_str = EmptyRaw
    /\ success = FALSE
    /\ attempts = <<>>
    /\ yielded = <<>>
    /\ ClassifyOff /\ SlotsOff /\ StoreOff /\ IdOff /\ UiOff /\ AuxOff

NextTurn ==
    \/ AcceptGdpr
    \/ ChatInput
    \/ StartStream
    \/ CheckEmergency
    \/ GroqCreated
    \/ GroqTimeout
    \/ GroqError
    \/ GroqStreamEnd(TurnOutputs)
    \/ AfterGroq
    \/ GeminiReturn(TurnOutputs)
    \/ GeminiError
    \/ Finish
    \/ Consume

SpecTurn == InitTurn /\ [][NextTurn]_vars

\* C2: in a turn whose text assess_emergency_level rates RED no provider is
\* called, and the turn ends with the emergency response (EMERGENCY_OVERRIDE).
C2_RedHaltsTurn ==
    caller = "frontend" /\ turn_level = "RED" =>
        /\ ~Has(attempts, "groq") /\ ~Has(attempts, "gemini")
        /\ pc = "returned" =>
              \A r \in Responses : r.fase_corrente = "EMERGENCY_OVERRIDE" /\ r.urgenza = 5

\* C3: in every turn the classification of the user's text comes before any
\* provider call: the frontend's assess_emergency_level and then the
\* orchestrator's trigger check both precede the first attempt.
C3_ClassifyBeforeProvider ==
    caller = "frontend" =>
        \A i \in 1..Len(attempts) :
            attempts[i] \in {"groq", "gemini"} =>
                \E j \in 1..(i - 1) : \E k \in (j + 1)..(i - 1) :
                    attempts[j] = "assess" /\ attempts[k] = "check"

\* a turn with a text that is no emergency, answered by the secondary provider
C3_Witness ==
    /\ caller = "frontend"
    /\ turn_level = "none"
    /\ pc = "returned"
    /\ Has(attempts, "gemini_ok")
    /\ user_input # <<>>

\* C26: the emergency level of a session is persistent: a turn never resets
\* it to none and never replaces it by a level of lower priority
\* (none < ORANGE < RED < BLACK).
C26_EmergencyPersistent ==
    [][Rank(emergency_level') >= Rank(emergency_level)]_vars

(***************************************************************************)
(* compat.update_session_with_user_input: the legacy session dict is       *)
(* converted to a TriageState, merged with the extracted entities and      *)
(* converted back.                                                         *)
(***************************************************************************)
NoneV == [k |-> "none"]

Slots == {"LOCATION", "age", "CHIEF_COMPLAINT", "PAIN_SCALE", "RED_FLAGS"}

SlotValues(slot) ==
    CASE slot = "LOCATION" -> {Str("Bologna"), Str("Modena")}
      [] slot = "age" -> {Num(0), Num(35)}
      [] slot = "CHIEF_COMPLAINT" -> {Str("mal di testa")}
      [] slot = "PAIN_SCALE" -> {Num(7)}
      [] slot = "RED_FLAGS" -> {List(<<"febbre">>)}

\* a dict with some of the slot keys; a missing key reads as None
Dicts ==
    {[LOCATION |-> a, age |-> b, CHIEF_COMPLAINT |-> c, PAIN_SCALE |-> d, RED_FLAGS |-> e] :
        a \in SlotValues("LOCATION") \cup {NoneV}, b \in SlotValues("age") \cup {NoneV},
        c \in SlotValues("CHIEF_COMPLAINT") \cup {NoneV}, d \in SlotValues("PAIN_SCALE") \cup {NoneV},
        e \in SlotValues("RED_FLAGS") \cup {NoneV}}

EmptyDict ==
    [LOCATION |-> NoneV, age |-> NoneV, CHIEF_COMPLAINT |-> NoneV, PAIN_SCALE |-> NoneV, RED_FLAGS |-> NoneV]

\* Python truthiness of a slot value
Truthy(v) ==
    CASE v.k = "none" -> FALSE
      [] v.k = "num" -> v.v # 0
      [] v.k = "str" -> v.v # ""
      [] v.k = "list" -> v.v # <<>>

\* TriageSessionBridge.convert_legacy_session_data
dict_to_triage_state(d) ==
    [location |-> d["LOCATION"], age |-> d["age"],
     chief_complaint |-> d["CHIEF_COMPLAINT"], pain_scale |-> d["PAIN_SCALE"],
     red_flags |-> IF d["RED_FLAGS"] = NoneV THEN List(<<>>) ELSE d["RED_FLAGS"]]

\* TriageSessionBridge.sync_session_context: new data only fills empty slots
Fill(old, new) == IF old = NoneV \/ old = List(<<>>) THEN (IF new = NoneV THEN old ELSE new) ELSE old

sync_session_context(state, new_data) ==
    [location |-> Fill(state.location, new_data["LOCATION"]),
     age |-> Fill(state.age, new_data["age"]),
     chief_complaint |-> Fill(state.chief_complaint, new_data["CHIEF_COMPLAINT"]),
     pain_scale |-> Fill(state.pain_scale, new_data["PAIN_SCALE"]),
     red_flags |-> Fill(state.red_flags, new_data["RED_FLAGS"])]

\* every key is written only when its value is truthy
StateToDictTruthyOnly(state) ==
    [LOCATION |-> IF Truthy(state.location) THEN state.location ELSE NoneV,
     age |-> IF Truthy(state.age) THEN state.age ELSE NoneV,
     CHIEF_COMPLAINT |-> IF Truthy(state.chief_complaint) THEN state.chief_complaint ELSE NoneV,
     PAIN_SCALE |-> IF Truthy(state.pain_scale) THEN state.pain_scale ELSE NoneV,
     RED_FLAGS |-> IF Truthy(state.red_flags) THEN state.red_flags ELSE NoneV]

\* compat.triage_state_to_dict, the slot keys
triage_state_to_dict(state) ==
    [LOCATION |-> IF Truthy(state.location) THEN state.location ELSE NoneV,
     age |-> IF state.age # NoneV THEN state.age ELSE NoneV,
     CHIEF_COMPLAINT |-> IF Truthy(state.chief_complaint) THEN state.chief_complaint ELSE NoneV,
     PAIN_SCALE |-> IF state.pain_scale # NoneV THEN state.pain_scale ELSE NoneV,
     RED_FLAGS |-> IF Truthy(state.red_flags) THEN state.red_flags ELSE NoneV]

\* the extracted entities replace what the session holds
UpdateSessionOverwrites(d, extracted) ==
    triage_state_to_dict(sync_session_context(dict_to_triage_state(extracted), d))

\* compat.update_session_with_user_input, with the entities extracted from the text
update_session_with_user_input(d, extracted) ==
    triage_state_to_dict(sync_session_context(dict_to_triage_state(d), extracted))

UpdateSession ==
    /\ \E extracted \in Dicts :
          /\ session_data' = update_session_with_user_input(session_data, extracted)
          /\ last_merge' = [before |-> session_data, extracted |-> extracted]
    /\ UNCHANGED <<classifyVars, turnVars, extVars, auxVars>>

InitSlots ==
    /\ session_data = EmptyDict
    /\ last_merge = [before |-> EmptyDict, extracted |-> EmptyDict]
    /\ ClassifyOff /\ TurnOff /\ ExtOff /\ AuxOff

NextSlots == UpdateSession

SpecSlots == InitSlots /\ [][NextSlots]_vars

\* C5: a slot that held a value before an update keeps it, and an update only
\* fills the slots that were empty.
C5_MergeOnly ==
    \A x \in Slots :
        /\ last_merge.before[x] # NoneV => session_data[x] = last_merge.before[x]
        /\ last_merge.before[x] = NoneV => session_data[x] = last_merge.extracted[x]

\* LOCATION = Bologna, then {LOCATION: Modena, PAIN_SCALE: 7}
C5_Witness ==
    /\ last_merge.before["LOCATION"] = Str("Bologna")
    /\ last_merge.before["PAIN_SCALE"] = NoneV
    /\ last_merge.extracted["LOCATION"] = Str("Modena")
    /\ last_merge.extracted["PAIN_SCALE"] = Num(7)
    /\ session_data["LOCATION"] = Str("Bologna")
    /\ session_data["PAIN_SCALE"] = Num(7)

(***************************************************************************)
(* SmartRouter.route applied to drawn inputs                               *)
(***************************************************************************)
AreaVocab == {"Psichiatria", "Mentale", "Ginecologia", "Gravidanza", "Dipendenze", "Alcol",
              "Generale", "Salute"}

RouteInputs ==
    {[location |-> l, urgenza |-> u, area |-> a] :
        l \in {<<"Bologna">>, <<"Modena">>}, u \in 0..6, a \in SeqsUpTo(AreaVocab, MaxAreaLen)}

InitRoute ==
    /\ f_in \in RouteInputs
    /\ f_out = NotCalled
    /\ ClassifyOff /\ TurnOff /\ DataOff /\ StepsOff /\ PathOff

Route ==
    /\ ~f_out.done
    /\ f_out' = Returned(route(f_in.location, f_in.urgenza, f_in.area))
    /\ UNCHANGED <<f_in, classifyVars, turnVars, dataVars, stepVars, pathVars>>

NextRoute == Route

SpecRoute == InitRoute /\ [][NextRoute]_vars

Words(area) == {area[i] : i \in 1..Len(area)}

MentalHealthArea(area) == Words(area) \cap {"Psichiatria", "Psichiatrica", "Mentale"} # {}

ObstetricArea(area) == Words(area) \cap {"Ginecologia", "Ostetricia", "Gravidanza"} # {}

DependencyArea(area) == Words(area) \cap {"Dipendenze", "Tossicodipendenza", "Alcol"} # {}

\* C12: route returns one disposition type in the fixed priority order: PS for
\* urgency >= 4 whatever the area, else CSM for a mental-health area, else
\* Consultorio for an obstetric area, else SerD for a dependency area, else CAU
\* for urgency 3, else MMG.
C12_RoutePriority ==
    f_out.done =>
        LET u == f_in.urgenza
            a == f_in.area
            t == f_out.v.tipo
        IN /\ t \in {"PS", "CSM", "Consultorio", "SerD", "CAU", "MMG"}
           /\ (t = "PS") <=> (u >= 4)
           /\ (t = "CSM") <=> (u < 4 /\ MentalHealthArea(a))
           /\ (t = "Consultorio") <=> (u < 4 /\ ~MentalHealthArea(a) /\ ObstetricArea(a))
           /\ (t = "SerD") <=>
                 (u < 4 /\ ~MentalHealthArea(a) /\ ~ObstetricArea(a) /\ DependencyArea(a))
           /\ (t = "CAU") <=>
                 (u = 3 /\ ~MentalHealthArea(a) /\ ~ObstetricArea(a) /\ ~DependencyArea(a))

\* urgency 3 with a mental-health area: the area rule wins over the CAU rule
C12_Witness ==
    /\ f_out.done
    /\ f_in.urgenza = 3
    /\ f_in.area = <<"Salute", "Mentale">>
    /\ f_out.v.tipo = "CSM"

(***************************************************************************)
(* The step machine of frontend.py: TriageStep, can_proceed_to_next_step,  *)
(* advance_step and the handler of a survey answer.                        *)
(***************************************************************************)
TriageStep ==
    [LOCATION |-> 1, CHIEF_COMPLAINT |-> 2, PAIN_SCALE |-> 3, RED_FLAGS |-> 4,
     ANAMNESIS |-> 5, DISPOSITION |-> 6]

StepNames == DOMAIN TriageStep

StepName(value) == CHOOSE n \in StepNames : TriageStep[n] = value

\* max(step.value for step in TriageStep)
max_value == CHOOSE m \in {TriageStep[n] : n \in StepNames} : \A n \in StepNames : TriageStep[n] <= m

EmptyCollected ==
    [LOCATION |-> NoneV, CHIEF_COMPLAINT |-> NoneV, PAIN_SCALE |-> NoneV, RED_FLAGS |-> NoneV,
     ANAMNESIS |-> NoneV, DISPOSITION |-> NoneV, age |-> NoneV]

\* a text is the sequence of its characters
LowerAlpha == <<"a","b","c","d","e","f","g","h","i","j","k","l","m","n","o","p","q","r","s","t","u","v","w","x","y","z">>
UpperAlpha == <<"A","B","C","D","E","F","G","H","I","J","K","L","M","N","O","P","Q","R","S","T","U","V","W","X","Y","Z">>
DigitChars == <<"0","1","2","3","4","5","6","7","8","9">>

\* str.lower() and str.upper() on one character (unaccented letters)
LowerChar(c) ==
    IF \E i \in 1..26 : UpperAlpha[i] = c
    THEN LowerAlpha[CHOOSE i \in 1..26 : UpperAlpha[i] = c] ELSE c

UpperChar(c) ==
    IF \E i \in 1..26 : LowerAlpha[i] = c
    THEN UpperAlpha[CHOOSE i \in 1..26 : LowerAlpha[i] = c] ELSE c

LowerStr(t) == [i \in 1..Len(t) |-> LowerChar(t[i])]

IsDigit(c) == \E i \in 1..10 : DigitChars[i] = c

DigitVal(c) == (CHOOSE i \in 1..10 : DigitChars[i] = c) - 1

\* \w of the regular expressions: everything of these texts but space and punctuation
IsWordChar(c) == c \notin {" ", ",", ".", "?", "!", "'"}

\* str.title(): the first letter of every word in upper case
TitleStr(t) ==
    [i \in 1..Len(t) |-> IF i = 1 \/ ~IsWordChar(t[i - 1]) THEN UpperChar(t[i]) ELSE t[i]]

\* int() of the digits t[i..j]
RECURSIVE IntOf(_, _, _)
IntOf(t, i, j) == IF j < i THEN 0 ELSE 10 * IntOf(t, i, j - 1) + DigitVal(t[j])

\* re.findall(r'\b(\d{1,n})\b', t): the runs of at most n digits between word boundaries
NumRuns(t, n) ==
    {r \in (1..Len(t)) \X (1..Len(t)) :
        /\ r[1] <= r[2] /\ r[2] - r[1] < n
        /\ \A k \in r[1]..r[2] : IsDigit(t[k])
        /\ r[1] = 1 \/ ~IsWordChar(t[r[1] - 1])
        /\ r[2] = Len(t) \/ ~IsWordChar(t[r[2] + 1])}

\* int(nums[0]); -1 when nums is empty
FirstNum(t, n) ==
    IF NumRuns(t, n) = {} THEN -1
    ELSE LET r == CHOOSE r \in NumRuns(t, n) : \A q \in NumRuns(t, n) : r[1] <= q[1]
         IN IntOf(t, r[1], r[2])

\* re.search(r'a.*b', t); b is empty for a pattern without .*
SearchThen(t, a, b) ==
    \E i \in 0..(Len(t) - Len(a)) :
        /\ \A j \in 1..Len(a) : t[i + j] = a[j]
        /\ Contains(SubSeq(t, i + Len(a) + 1, Len(t)), b)

\* load_comuni_er: the set returned when the map file cannot be read
COMUNI_ER_VALIDI ==
    {<<"b","o","l","o","g","n","a">>,
     <<"m","o","d","e","n","a">>,
     <<"p","a","r","m","a">>,
     <<"r","e","g","g","i","o"," ","e","m","i","l","i","a">>,
     <<"f","e","r","r","a","r","a">>,
     <<"r","a","v","e","n","n","a">>,
     <<"r","i","m","i","n","i">>,
     <<"f","o","r","l","ì">>,
     <<"p","i","a","c","e","n","z","a">>,
     <<"c","e","s","e","n","a">>}

Articles == {<<"i","l">>, <<"l","o">>, <<"l","a">>, <<"i">>, <<"g","l","i">>, <<"l","e">>, <<"a">>, <<"d","i">>}

\* re.sub(r'^(il|lo|la|i|gli|le|a|di)\s+', '', target)
RECURSIVE LStripSpaces(_)
LStripSpaces(t) == IF t # <<>> /\ t[1] = " " THEN LStripSpaces(Tail(t)) ELSE t

StripArticle(t) ==
    LET hits == {a \in Articles : Len(t) > Len(a) /\ SubSeq(t, 1, Len(a)) = a /\ t[Len(a) + 1] = " "}
    IN IF hits = {} THEN t
       ELSE LStripSpaces(SubSeq(t, Len(CHOOSE a \in hits : TRUE) + 1, Len(t)))

\* InputValidator.WORD_TO_NUM, in the order of the dict
WORD_TO_NUM ==
    << [w |-> <<"z","e","r","o">>, val |-> 0],
       [w |-> <<"u","n","o">>, val |-> 1],
       [w |-> <<"d","u","e">>, val |-> 2],
       [w |-> <<"t","r","e">>, val |-> 3],
       [w |-> <<"q","u","a","t","t","r","o">>, val |-> 4],
       [w |-> <<"c","i","n","q","u","e">>, val |-> 5],
       [w |-> <<"s","e","i">>, val |-> 6],
       [w |-> <<"s","e","t","t","e">>, val |-> 7],
       [w |-> <<"o","t","t","o">>, val |-> 8],
       [w |-> <<"n","o","v","e">>, val |-> 9],
       [w |-> <<"d","i","e","c","i">>, val |-> 10],
       [w |-> <<"v","e","n","t","i">>, val |-> 20],
       [w |-> <<"t","r","e","n","t","a">>, val |-> 30],
       [w |-> <<"q","u","a","r","a","n","t","a">>, val |-> 40],
       [w |-> <<"c","i","n","q","u","a","n","t","a">>, val |-> 50],
       [w |-> <<"s","e","s","s","a","n","t","a">>, val |-> 60],
       [w |-> <<"s","e","t","t","a","n","t","a">>, val |-> 70],
       [w |-> <<"o","t","t","a","n","t","a">>, val |-> 80],
       [w |-> <<"n","o","v","a","n","t","a">>, val |-> 90],
       [w |-> <<"c","e","n","t","o">>, val |-> 100] >>

\* pain_map of validate_pain_scale, in the order of the dict
pain_map ==
    << [w |-> <<"l","i","e","v","e">>, val |-> 2],
       [w |-> <<"p","o","c","o">>, val |-> 2],
       [w |-> <<"m","o","d","e","r","a","t","o">>, val |-> 5],
       [w |-> <<"m","e","d","i","o">>, val |-> 5],
       [w |-> <<"f","o","r","t","e">>, val |-> 8],
       [w |-> <<"m","o","l","t","o">>, val |-> 8],
       [w |-> <<"i","n","t","e","n","s","o">>, val |-> 8],
       [w |-> <<"a","c","u","t","o">>, val |-> 8],
       [w |-> <<"i","n","s","o","p","p","o","r","t","a","b","i","l","e">>, val |-> 10],
       [w |-> <<"a","t","r","o","c","e">>, val |-> 10],
       [w |-> <<"e","s","t","r","e","m","o">>, val |-> 10] >>

\* patterns of validate_red_flags, in the order of the dict
RedFlagPatterns ==
    << [name |-> "dolore_toracico", alts |-> << [a |-> <<"d","o","l","o","r","e">>, b |-> <<"p","e","t","t","o">>], [a |-> <<"o","p","p","r","e","s","s","i","o","n","e">>, b |-> <<"t","o","r","a","c","e">>], [a |-> <<"i","n","f","a","r","t","o">>, b |-> <<>>] >>],
       [name |-> "dispnea", alts |-> << [a |-> <<"n","o","n">>, b |-> <<"r","e","s","p","i","r">>], [a |-> <<"a","f","f","a","n","n","o">>, b |-> <<>>], [a |-> <<"s","o","f","f","o","c">>, b |-> <<>>], [a |-> <<"f","a","m","e">>, b |-> <<"a","r","i","a">>] >>],
       [name |-> "coscienza", alts |-> << [a |-> <<"s","v","e","n","u","t">>, b |-> <<>>], [a |-> <<"p","e","r","s","o">>, b |-> <<"s","e","n","s","i">>], [a |-> <<"c","o","n","f","u","s">>, b |-> <<>>], [a |-> <<"s","t","o","r","d","i","t">>, b |-> <<>>] >>],
       [name |-> "emorragia", alts |-> << [a |-> <<"s","a","n","g","u","e">>, b |-> <<"m","o","l","t","o">>], [a |-> <<"e","m","o","r","r","a","g","i","a">>, b |-> <<>>], [a |-> <<"s","a","n","g","u","i","n","a","m","e","n","t","o">>, b |-> <<"f","o","r","t","e">>] >>] >>

\* the first entry of an ordered dict whose word is in the text; 0 when none is
FirstWordIn(dict, t) ==
    LET hits == {i \in 1..Len(dict) : Contains(t, dict[i].w)}
    IN IF hits = {} THEN 0 ELSE CHOOSE i \in hits : \A j \in hits : i <= j

Invalid == [ok |-> FALSE, v |-> NoneV, raised |-> FALSE]

Valid(v) == [ok |-> TRUE, v |-> v, raised |-> FALSE]

\* the call ends with an exception
Raised == [ok |-> FALSE, v |-> NoneV, raised |-> TRUE]

\* InputValidator.validate_location: line 356 calls .keys() on the set
validate_location(input_text) ==
    IF input_text = <<>> THEN Invalid
    ELSE LET target == StripArticle(Strip(LowerStr(input_text)))
         IN IF target \in COMUNI_ER_VALIDI THEN Valid(Str(TitleStr(target))) ELSE Raised

\* InputValidator.validate_pain_scale
validate_pain_scale(input_text) ==
    IF input_text = <<>> THEN Invalid
    ELSE LET text == LowerStr(input_text)
             n == FirstNum(text, 2)
             k == FirstWordIn(pain_map, text)
         IN IF n >= 1 /\ n <= 10 THEN Valid(Num(n))
            ELSE IF k # 0 THEN Valid(Num(pain_map[k].val))
            ELSE Invalid

\* InputValidator.validate_age
validate_age(input_text) ==
    IF input_text = <<>> THEN Invalid
    ELSE LET text == LowerStr(input_text)
             n == FirstNum(text, 3)
             k == FirstWordIn(WORD_TO_NUM, text)
         IN IF n >= 0 /\ n <= 120 THEN Valid(Num(n))
            ELSE IF k # 0 THEN Valid(Num(WORD_TO_NUM[k].val))
            ELSE IF Contains(text, <<"b","a","m","b","i","n">>) THEN Valid(Num(7))
            ELSE IF Contains(text, <<"a","n","z","i","a","n">>) \/ Contains(text, <<"v","e","c","c","h","i","o">>) THEN Valid(Num(80))
            ELSE IF Contains(text, <<"n","e","o","n","a","t","o">>) THEN Valid(Num(0))
            ELSE Invalid

\* InputValidator.validate_red_flags
validate_red_flags(input_text) ==
    IF input_text = <<>> THEN Valid(List(<<>>))
    ELSE LET text == LowerStr(input_text)
             found(i) == \E k \in 1..Len(RedFlagPatterns[i].alts) :
                            SearchThen(text, RedFlagPatterns[i].alts[k].a, RedFlagPatterns[i].alts[k].b)
             names == [i \in 1..Len(RedFlagPatterns) |-> RedFlagPatterns[i].name]
         IN Valid(List(SelectSeq(names,
                LAMBDA nm : \E i \in 1..Len(RedFlagPatterns) :
                               RedFlagPatterns[i].name = nm /\ found(i))))

\* the options a survey may show
AnswerOptions == {<<"B","o","l","o","g","n","a">>, <<"A","t","l","a","n","t","i","d","e">>, <<"7">>, <<"8">>}

\* after the last step the machine starts again at the first
NextStepWraps(current_value) ==
    IF current_value < max_value THEN current_value + 1 ELSE 1

\* advance_step: the step after current_value
next_step(current_value) ==
    IF current_value < max_value THEN current_value + 1 ELSE current_value

\* every step passes whatever was collected
CanProceedAlways(step, data) == TRUE

\* `step_name in st.session_state.collected_data`, DISPOSITION always passes
can_proceed_to_next_step(step, data) ==
    IF step = TriageStep.DISPOSITION THEN TRUE ELSE data[StepName(step)] # NoneV

\* advance_step called on its own; f_out is what it returns
AdvanceStep ==
    /\ current_step # 0
    /\ IF can_proceed_to_next_step(current_step, collected_data)
       THEN /\ step_timestamps' = step_timestamps \cup {current_step}
            /\ step_completed' = step_completed \cup {current_step}
            /\ current_step' = next_step(current_step)
            /\ f_out' = Returned(TRUE)
       ELSE /\ UNCHANGED <<current_step, step_completed, step_timestamps>>
            /\ f_out' = Returned(FALSE)
    /\ UNCHANGED <<collected_data, f_in, classifyVars, turnVars, dataVars, pathVars>>

\* the value the handler stores for the step, and whether the validation passed
Stored(step, opt) ==
    CASE step = TriageStep.LOCATION ->
            [ok |-> validate_location(opt).ok, v |-> validate_location(opt).v,
             raised |-> validate_location(opt).raised]
      [] step = TriageStep.PAIN_SCALE ->
            [ok |-> TRUE,
             v |-> IF validate_pain_scale(opt).ok THEN validate_pain_scale(opt).v ELSE Str(opt),
             raised |-> FALSE]
      [] step = TriageStep.RED_FLAGS ->
            [ok |-> TRUE, v |-> validate_red_flags(opt).v, raised |-> FALSE]
      [] OTHER -> [ok |-> TRUE, v |-> Str(opt), raised |-> FALSE]

\* lines 1944-2006: the answer is validated and stored, then advance_step;
\* an exception of the validator ends the run with the session unchanged
SurveyAnswerOf(options) ==
    /\ current_step # 0
    /\ \E opt \in options :
          LET st == Stored(current_step, opt)
              withStep == IF st.ok
                          THEN [collected_data EXCEPT ![StepName(current_step)] = st.v]
                          ELSE collected_data
              data == IF current_step = TriageStep.ANAMNESIS /\ validate_age(opt).ok
                      THEN [withStep EXCEPT !["age"] = validate_age(opt).v]
                      ELSE withStep
          IN IF st.raised
             THEN UNCHANGED <<collected_data, current_step, step_completed, step_timestamps,
                              current_phase_idx, pending_survey>>
             ELSE /\ collected_data' = data
                  /\ pending_survey' = <<>>
                  /\ IF st.ok /\ can_proceed_to_next_step(current_step, data)
                     THEN /\ step_timestamps' = step_timestamps \cup {current_step}
                          /\ step_completed' = step_completed \cup {current_step}
                          /\ current_step' = next_step(current_step)
                          /\ current_phase_idx' = IF current_phase_idx < Len(PHASES) - 1
                                                  THEN current_phase_idx + 1
                                                  ELSE current_phase_idx
                     ELSE UNCHANGED <<current_step, step_completed, step_timestamps,
                                      current_phase_idx>>
    /\ UNCHANGED <<classifyVars, slotVars, storeVars, idVars, gdpr_consent, egress, fnVars,
                   pathVars, pc, caller, user_input, phase, groq_client, gemini_model,
                   emergency_level, turn_level, full_response_str, success, attempts, yielded>>

SurveyAnswer == SurveyAnswerOf(AnswerOptions) /\ UNCHANGED page

InitSteps ==
    /\ current_step = TriageStep.LOCATION
    /\ collected_data = EmptyCollected
    /\ step_completed = {}
    /\ step_timestamps = {}
    /\ ClassifyOff /\ TurnOff /\ DataOff /\ FnOff /\ PathOff

NextSteps == AdvanceStep \/ SurveyAnswer

SpecSteps == InitSteps /\ [][NextSteps]_vars

\* C13: within a session the step only stays or moves to the next one of the
\* sequence LOCATION .. DISPOSITION; it never moves back and never leaves the
\* sequence after DISPOSITION.
C13_StepsOnlyForward ==
    [][/\ current_step' \in {current_step, current_step + 1}
       /\ current_step' \in 1..TriageStep.DISPOSITION]_vars

\* the last step was reached through every step and completed
C13_Witness ==
    /\ current_step = TriageStep.DISPOSITION
    /\ step_completed = 1..6
    /\ collected_data["LOCATION"] = Str(<<"B","o","l","o","g","n","a">>)
    /\ collected_data["DISPOSITION"] # NoneV

\* the step moves only with a value for it, and a call of advance_step on a
\* step without value returns False and changes nothing
MovesOnlyWithValue ==
    /\ current_step' # current_step =>
          collected_data'[StepName(current_step)] # NoneV
    /\ (~can_proceed_to_next_step(current_step, collected_data)
            /\ collected_data' = collected_data) =>
          /\ UNCHANGED <<current_step, step_completed, step_timestamps>>
          /\ f_out' # f_out => f_out' = Returned(FALSE)

StripStr(x) == IF x = " " THEN "" ELSE x

\* ModelOrchestrator._determine_next_slot; the result is named by its first words
determine_next_slot(data, current_phase) ==
    LET red_flags_data == data["RED_FLAGS"]
        has_red_flags ==
            /\ Truthy(red_flags_data)
            /\ \/ red_flags_data.k = "str" /\ StripStr(red_flags_data.v) # ""
               \/ red_flags_data.k = "list" /\ Len(red_flags_data.v) > 0
    IN IF ~Truthy(data["LOCATION"]) /\ current_phase # "DISPOSITION"
            THEN "Comune di residenza"
       ELSE IF ~Truthy(data["CHIEF_COMPLAINT"]) /\ current_phase # "DISPOSITION"
            THEN "Sintomo principale"
       ELSE IF ~Truthy(data["PAIN_SCALE"]) /\ current_phase # "DISPOSITION"
            THEN "Intensità dolore"
       ELSE IF ~has_red_flags /\ current_phase # "DISPOSITION"
            THEN "RED FLAGS"
       ELSE IF ~Truthy(data["age"]) /\ current_phase # "DISPOSITION"
            THEN "Età del paziente"
       ELSE IF current_phase = "DISPOSITION"
            THEN "GENERAZIONE_RACCOMANDAZIONE_FINALE"
       ELSE "Anamnesi aggiuntiva"

\* collected_data as the orchestrator may receive it
SlotInputs ==
    {[collected_data |->
          [LOCATION |-> a, age |-> b, CHIEF_COMPLAINT |-> c, PAIN_SCALE |-> d, RED_FLAGS |-> e],
      current_phase |-> ph] :
        a \in {NoneV, Str(""), Str("Bologna")},
        b \in {NoneV, Num(0), Num(35)},
        c \in {NoneV, Str("mal di testa")},
        d \in {NoneV, Num(7), Str("forte")},
        e \in {NoneV, Str("no"), Str(" "), List(<<>>), List(<<"dispnea">>)},
        ph \in {"INITIAL", "RED_FLAGS", "ANAMNESIS", "DISPOSITION"}}

InitNextSlot ==
    /\ f_in \in SlotInputs
    /\ f_out = NotCalled
    /\ ClassifyOff /\ TurnOff /\ DataOff /\ StepsOff /\ PathOff

DetermineNextSlot ==
    /\ ~f_out.done
    /\ f_out' = Returned(determine_next_slot(f_in.collected_data, f_in.current_phase))
    /\ UNCHANGED <<f_in, classifyVars, turnVars, dataVars, stepVars, pathVars>>

NextNextSlot == DetermineNextSlot

SpecNextSlot == InitNextSlot /\ [][NextNextSlot]_vars

\* a slot holds no value: the key is missing, or the text or the list is empty
EmptySlot(v) == v = NoneV \/ (v.k = "str" /\ StripStr(v.v) = "") \/ v = List(<<>>)

SlotOrder == <<"LOCATION", "CHIEF_COMPLAINT", "PAIN_SCALE", "RED_FLAGS", "age">>

SlotPrompt ==
    <<"Comune di residenza", "Sintomo principale", "Intensità dolore", "RED FLAGS",
      "Età del paziente">>

\* C14: the slot asked for is the first one of the fixed order that is still
\* empty; in phase DISPOSITION it is the final recommendation whatever is
\* missing; with every slot filled it is the additional anamnesis.
C14_FirstEmptySlot ==
    f_out.done =>
        LET missing == {i \in 1..Len(SlotOrder) : EmptySlot(f_in.collected_data[SlotOrder[i]])}
        IN f_out.v =
              IF f_in.current_phase = "DISPOSITION" THEN "GENERAZIONE_RACCOMANDAZIONE_FINALE"
              ELSE IF missing = {} THEN "Anamnesi aggiuntiva"
              ELSE SlotPrompt[CHOOSE i \in missing : \A j \in missing : i <= j]

\* the slot holds an answer: anything but None and a blank text; the empty
\* list is the answer "no red flags"
Answered(v) == v # NoneV /\ (v.k = "str" => StripStr(v.v) # "")

\* C37: _determine_next_slot does not name a slot whose answer is recorded,
\* and with the negative red-flags answer stored as the handler stores it
\* (the list validate_red_flags returns for "No") the next slot is not
\* RED FLAGS again.
C37_NoRepeatedSlot ==
    f_out.done =>
        /\ \A i \in 1..Len(SlotOrder) :
              Answered(f_in.collected_data[SlotOrder[i]]) => f_out.v # SlotPrompt[i]
        /\ determine_next_slot(
              [f_in.collected_data EXCEPT !["RED_FLAGS"] = validate_red_flags(<<"N", "o">>).v],
              f_in.current_phase) # "RED FLAGS"

(***************************************************************************)
(* A session routed through compat.get_next_question_for_path.  The phase  *)
(* router (route_to_phase) and the TriageState methods follow section 4.3  *)
(* of the specification and the cases of test_5_path_specific_logic.       *)
(* Every question is taken to be answered with a value for its slot.       *)
(***************************************************************************)
\* every path is taken for the standard one
TriagePathAlwaysC(path) == "C"

\* every path is taken for the emergency one
TriagePathAlwaysA(path) == "A"

\* the branch for "B" is missing
TriagePathNoB(path) == IF path = "A" THEN "A" ELSE "C"

\* the branch for "A" is missing
TriagePathNoA(path) == IF path = "B" THEN "B" ELSE "C"

\* get_next_question_for_path: the path string converted to the enum
triage_path(path) == IF path = "A" THEN "A" ELSE IF path = "B" THEN "B" ELSE "C"

CriticalRedFlags == {"Dolore toracico", "dolore toracico", "Alterazione coscienza"}

\* TriageState.has_critical_red_flags
has_critical_red_flags(state) ==
    /\ state.slots.red_flags.k = "list"
    /\ \E i \in 1..Len(state.slots.red_flags.v) : state.slots.red_flags.v[i] \in CriticalRedFlags

\* the slots a path requires, in the order of the phases, with their phase
RequiredSlots(assigned_path) ==
    IF assigned_path = "A"
    THEN << <<"location", "LOCATION">>, <<"chief_complaint", "CHIEF_COMPLAINT">>,
            <<"red_flags", "RED_FLAGS">> >>
    ELSE << <<"location", "LOCATION">>, <<"chief_complaint", "CHIEF_COMPLAINT">>,
            <<"pain_scale", "PAIN_SCALE">>, <<"red_flags", "RED_FLAGS">>,
            <<"age", "ANAMNESIS">> >>

SlotIsEmpty(v) == v = NoneV \/ v = List(<<>>)

\* TriageState.get_missing_critical_slots, as indexes of RequiredSlots
MissingSlots(state) ==
    {i \in 1..Len(RequiredSlots(state.assigned_path)) :
        SlotIsEmpty(state.slots[RequiredSlots(state.assigned_path)[i][1]])}

\* TriageState.can_transition_to_disposition
can_transition_to_disposition(state) ==
    state.assigned_branch = "INFORMAZIONI" \/ MissingSlots(state) = {}

\* SmartRouter.route_to_phase: the next phase and the kind of prompt
route_to_phase(state) ==
    IF state.assigned_path = "A" /\ has_critical_red_flags(state)
        THEN [next_phase |-> "EMERGENCY_OVERRIDE", prompt |-> "118"]
    ELSE IF state.assigned_branch = "INFORMAZIONI"
        THEN [next_phase |-> "DISPOSITION", prompt |-> "info"]
    ELSE IF state.assigned_path = "B" /\ ~state.consent_given
        THEN [next_phase |-> "INTENT_DETECTION", prompt |-> "consenso"]
    ELSE IF MissingSlots(state) = {}
        THEN [next_phase |-> "DISPOSITION", prompt |-> "raccomandazione"]
    ELSE LET i == CHOOSE i \in MissingSlots(state) : \A j \in MissingSlots(state) : i <= j
         IN [next_phase |-> RequiredSlots(state.assigned_path)[i][2], prompt |-> "domanda"]

\* compat.get_next_question_for_path
get_next_question_for_path(session, path) ==
    LET state == [slots |-> dict_to_triage_state(session.slots),
                  assigned_path |-> triage_path(path),
                  assigned_branch |-> session.assigned_branch,
                  consent_given |-> session.consent_given]
        routed == route_to_phase(state)
    IN [next_phase |-> routed.next_phase,
        prompt_message |-> routed.prompt,
        can_proceed_disposition |-> can_transition_to_disposition(state)]

\* the slot a phase asks for, and the answers drawn for it
PhaseSlot(ph) ==
    CASE ph = "LOCATION" -> "LOCATION"
      [] ph = "CHIEF_COMPLAINT" -> "CHIEF_COMPLAINT"
      [] ph = "PAIN_SCALE" -> "PAIN_SCALE"
      [] ph = "RED_FLAGS" -> "RED_FLAGS"
      [] ph = "ANAMNESIS" -> "age"

PathAnswers(slot) ==
    CASE slot = "LOCATION" -> {Str("Bologna"), Str("Modena")}
      [] slot = "CHIEF_COMPLAINT" -> {Str("mal di testa"), Str("dolore petto")}
      [] slot = "PAIN_SCALE" -> {Num(7)}
      [] slot = "RED_FLAGS" -> {List(<<"Febbre alta">>), List(<<"Dolore toracico">>)}
      [] slot = "age" -> {Num(0), Num(35)}

\* red flags extracted from an answer next to the slot asked for
ExtraFlags == {NoneV, List(<<"Febbre alta">>), List(<<"Dolore toracico">>)}

NoDecision ==
    [fresh |-> FALSE, next_phase |-> "INTENT_DETECTION", prompt_message |-> "none",
     can_proceed_disposition |-> FALSE]

InitPath ==
    /\ \E path \in {"A", "B", "C", "standard"}, branch \in {"TRIAGE", "INFORMAZIONI"},
          flags \in ExtraFlags :
          t_state = [path |-> path,
                     session |-> [slots |-> [EmptyDict EXCEPT !["RED_FLAGS"] = flags],
                                  assigned_branch |-> branch, consent_given |-> FALSE],
                     asked |-> <<>>]
    /\ t_decision = NoDecision
    /\ ClassifyOff /\ TurnOff /\ DataOff /\ FnOff /\ StepsOff

\* the next question of the session is determined
GetNextQuestion ==
    /\ ~t_decision.fresh
    /\ t_decision.next_phase \notin {"DISPOSITION", "EMERGENCY_OVERRIDE"}
    /\ LET d == get_next_question_for_path(t_state.session, t_state.path)
       IN /\ t_decision' = [fresh |-> TRUE, next_phase |-> d.next_phase,
                            prompt_message |-> d.prompt_message,
                            can_proceed_disposition |-> d.can_proceed_disposition]
          /\ t_state' = [t_state EXCEPT !.asked =
                            IF d.prompt_message = "domanda" THEN Append(@, d.next_phase) ELSE @]
    /\ UNCHANGED <<classifyVars, turnVars, dataVars, fnVars, stepVars>>

\* the user answers the question: the entities are merged into the session
AnswerQuestion ==
    /\ t_decision.fresh
    /\ t_decision.prompt_message = "domanda"
    /\ \E v \in PathAnswers(PhaseSlot(t_decision.next_phase)), flags \in ExtraFlags :
          LET slot == PhaseSlot(t_decision.next_phase)
              withFlags == [EmptyDict EXCEPT !["RED_FLAGS"] = flags]
              extracted == [withFlags EXCEPT ![slot] = v]
          IN t_state' = [t_state EXCEPT !.session.slots =
                            update_session_with_user_input(@, extracted)]
    /\ t_decision' = [t_decision EXCEPT !.fresh = FALSE]
    /\ UNCHANGED <<classifyVars, turnVars, dataVars, fnVars, stepVars>>

\* the user answers the consent request
AnswerConsent ==
    /\ t_decision.fresh
    /\ t_decision.prompt_message = "consenso"
    /\ \E given \in BOOLEAN : t_state' = [t_state EXCEPT !.session.consent_given = given]
    /\ t_decision' = [t_decision EXCEPT !.fresh = FALSE]
    /\ UNCHANGED <<classifyVars, turnVars, dataVars, fnVars, stepVars>>

NextPath == GetNextQuestion \/ AnswerQuestion \/ AnswerConsent

SpecPath == InitPath /\ [][NextPath]_vars

\* the state a routing decision of the session was taken on
RoutedSlots == dict_to_triage_state(t_state.session.slots)

HasCriticalFlag ==
    \E i \in 1..Len(RoutedSlots.red_flags.v) : RoutedSlots.red_flags.v[i] \in CriticalRedFlags

PathAOrder == <<"LOCATION", "CHIEF_COMPLAINT", "RED_FLAGS">>

C16_CriticalFlagOverrides ==
    (t_state.path = "A" /\ t_decision.fresh) =>
        (t_decision.next_phase = "EMERGENCY_OVERRIDE" <=> HasCriticalFlag)

C16_Witness ==
    /\ t_state.path = "A"
    /\ t_state.asked # <<>>
    /\ t_decision.fresh
    /\ t_decision.next_phase = "EMERGENCY_OVERRIDE"
    /\ HasCriticalFlag

\* C17: on path "B" no clinical slot is asked for before the consent is
\* given; while it is not, the prompt of a triage session asks for it.
C17_ConsentBeforeSlots ==
    t_state.path = "B" =>
        /\ t_state.asked # <<>> => t_state.session.consent_given
        /\ (/\ t_decision.fresh
            /\ ~t_state.session.consent_given
            /\ t_state.session.assigned_branch # "INFORMAZIONI")
              => t_decision.prompt_message = "consenso"

C17_Witness ==
    /\ t_state.path = "B"
    /\ t_state.session.consent_given
    /\ t_state.asked # <<>>
    /\ t_decision.fresh

\* the slots the path of the session requires, by its path string
AllRequiredFilled ==
    /\ ~SlotIsEmpty(RoutedSlots.location)
    /\ ~SlotIsEmpty(RoutedSlots.chief_complaint)
    /\ ~SlotIsEmpty(RoutedSlots.red_flags)
    /\ t_state.path # "A" => ~SlotIsEmpty(RoutedSlots.pain_scale) /\ ~SlotIsEmpty(RoutedSlots.age)

CriticalKeywords == {"dolore al petto", "non respiro"}
MentalHealthKeywords == {"ansioso", "depresso"}
InfoKeywords == {"dove", "a che ora"}
SymptomKeywords == {"mal di testa"}
IntentVocab ==
    CriticalKeywords \cup MentalHealthKeywords \cup InfoKeywords \cup SymptomKeywords \cup {"farmacia"}

HasWord(text, words) == \E i \in 1..Len(text) : text[i] \in words

\* SmartRouter.classify_initial_urgency
classify_initial_urgency(text) ==
    IF HasWord(text, CriticalKeywords)
        THEN [score |-> 5, assigned_path |-> "A", assigned_branch |-> "TRIAGE",
              rationale |-> "critical",
              detected_red_flags |-> SelectSeq(text, LAMBDA w : w \in CriticalKeywords),
              requires_immediate_118 |-> TRUE]
    ELSE IF HasWord(text, MentalHealthKeywords)
        THEN [score |-> 3, assigned_path |-> "B", assigned_branch |-> "TRIAGE",
              rationale |-> "mental health", detected_red_flags |-> <<>>,
              requires_immediate_118 |-> FALSE]
    ELSE IF HasWord(text, InfoKeywords) /\ ~HasWord(text, SymptomKeywords)
        THEN [score |-> 1, assigned_path |-> "C", assigned_branch |-> "INFORMAZIONI",
              rationale |-> "information", detected_red_flags |-> <<>>,
              requires_immediate_118 |-> FALSE]
    ELSE [score |-> 2, assigned_path |-> "C", assigned_branch |-> "TRIAGE",
          rationale |-> "standard", detected_red_flags |-> <<>>,
          requires_immediate_118 |-> FALSE]

\* the flag of the emergency call is not passed on
ClassifyIntentNo118(first_message) ==
    LET urgency_score == classify_initial_urgency(first_message)
    IN [urgency |-> urgency_score.score,
        assigned_path |-> urgency_score.assigned_path,
        assigned_branch |-> urgency_score.assigned_branch,
        rationale |-> urgency_score.rationale,
        detected_red_flags |-> urgency_score.detected_red_flags,
        requires_immediate_118 |-> FALSE]

\* compat.classify_user_intent
classify_user_intent(first_message) ==
    LET urgency_score == classify_initial_urgency(first_message)
    IN [urgency |-> urgency_score.score,
        assigned_path |-> urgency_score.assigned_path,
        assigned_branch |-> urgency_score.assigned_branch,
        rationale |-> urgency_score.rationale,
        detected_red_flags |-> urgency_score.detected_red_flags,
        requires_immediate_118 |-> urgency_score.requires_immediate_118]

\* the session a classification opens: nothing collected, no consent
OpenedSession(intent) ==
    [slots |-> EmptyDict, assigned_branch |-> intent.assigned_branch, consent_given |-> FALSE]

InitIntent ==
    /\ f_in \in SeqsUpTo(IntentVocab, MaxTextLen)
    /\ f_out = NotCalled
    /\ ClassifyOff /\ TurnOff /\ DataOff /\ StepsOff /\ PathOff

\* the first message is classified and the first question is determined
ClassifyIntent ==
    /\ ~f_out.done
    /\ LET intent == classify_user_intent(f_in)
       IN f_out' = Returned([intent |-> intent,
                             first |-> get_next_question_for_path(OpenedSession(intent),
                                                                  intent.assigned_path)])
    /\ UNCHANGED <<classifyVars, turnVars, dataVars, f_in, stepVars, pathVars>>

NextIntent == ClassifyIntent

SpecIntent == InitIntent /\ [][NextIntent]_vars

\* the one route of a classification
RouteOf(intent) ==
    IF intent.assigned_branch = "INFORMAZIONI" THEN "INFO" ELSE intent.assigned_path

\* C19: the first message gets exactly one route: a critical keyword gives
\* path A with the immediate 118 flag and a score of at least 4; otherwise a
\* mental-health keyword gives path B; otherwise an information request
\* without symptom words gives the INFO branch, whose first routing decision
\* asks no clinical slot; everything else gives path C without the 118 flag.
C19_OneRoutePerUtterance ==
    f_out.done =>
        LET intent == f_out.v.intent
        IN IF HasWord(f_in, CriticalKeywords)
               THEN /\ RouteOf(intent) = "A"
                    /\ intent.requires_immediate_118
                    /\ intent.urgency >= 4
           ELSE IF HasWord(f_in, MentalHealthKeywords)
               THEN RouteOf(intent) = "B"
           ELSE IF HasWord(f_in, InfoKeywords) /\ ~HasWord(f_in, SymptomKeywords)
               THEN /\ RouteOf(intent) = "INFO"
                    /\ f_out.v.first.prompt_message # "domanda"
                    /\ f_out.v.first.next_phase = "DISPOSITION"
           ELSE /\ RouteOf(intent) = "C"
                /\ ~intent.requires_immediate_118

C19_Witness ==
    /\ f_out.done
    /\ f_in = <<"dolore al petto", "ansioso">>
    /\ f_out.v.intent.assigned_path = "A"
    /\ f_out.v.intent.requires_immediate_118

(***************************************************************************)
(* bridge.stream_ai_response: the items of call_ai_streaming are collected *)
(* on a new event loop and yielded.  A text item is a fixed part and the   *)
(* text of an exception formatted into it ("none" when there is none).     *)
(***************************************************************************)
MaxChunks == 2

FixedText(msg) == [kind |-> "text", fixed |-> msg, exc |-> "none"]

\* what call_ai_streaming yields: texts and the final response object
ChunkVocab == {FixedText("Sto analizzando i dati raccolti."), [kind |-> "response"]}

ExcTexts == {"Cannot run the event loop while another loop is running",
             "Connection reset by peer"}

\* one call: the chunks yielded before the generator ends or raises, what it
\* raises, and what the event loop does
BridgeInputs ==
    {[chunks |-> c, raises |-> r, loop |-> l, exc |-> e] :
        c \in SeqsUpTo(ChunkVocab, MaxChunks), r \in {"none", "TimeoutError", "Exception"},
        l \in {"ok", "run_until_complete raises", "new_event_loop raises"}, e \in ExcTexts}

\* _collect, lines 23-49
collect(in) ==
    in.chunks \o
        (IF in.raises = "TimeoutError"
            THEN <<FixedText("La richiesta ha impiegato troppo tempo.  Riprova con una domanda più breve.")>>
         ELSE IF in.raises = "Exception"
            THEN <<FixedText("Si è verificato un errore durante la comunicazione con l'AI. Riprova.")>>
         ELSE <<>>)

\* stream_ai_response, lines 52-68: the items yielded and whether it raised
stream_ai_response(in) ==
    IF in.loop = "new_event_loop raises" THEN [items |-> <<>>, raised |-> TRUE]
    ELSE IF in.loop = "run_until_complete raises"
        THEN [items |-> <<[kind |-> "text", fixed |-> "Errore critico:  ", exc |-> in.exc]>>,
              raised |-> FALSE]
    ELSE [items |-> collect(in), raised |-> FALSE]

InitBridge ==
    /\ f_in \in BridgeInputs
    /\ f_out = NotCalled
    /\ ClassifyOff /\ TurnOff /\ DataOff /\ StepsOff /\ PathOff

StreamAiResponse ==
    /\ ~f_out.done
    /\ f_out' = Returned(stream_ai_response(f_in))
    /\ UNCHANGED <<classifyVars, turnVars, dataVars, f_in, stepVars, pathVars>>

NextBridge == StreamAiResponse

SpecBridge == InitBridge /\ [][NextBridge]_vars

\* C21: whatever fails in the orchestrator or in the bridge, the stream does
\* not end with an exception and no text item yielded by stream_ai_response
\* holds the text of the exception.
C21_NoRawError ==
    f_out.done =>
        /\ ~f_out.v.raised
        /\ \A i \in 1..Len(f_out.v.items) :
              f_out.v.items[i].kind = "text" => f_out.v.items[i].exc = "none"

\* what call_ai_streaming delivers to _collect: texts and then the response
\* object when it ends normally, texts only when it raises before the end
FromOrchestrator(in) ==
    /\ \A i \in 1..Len(in.chunks) :
          in.chunks[i].kind = "response" <=> (in.raises = "none" /\ i = Len(in.chunks))
    /\ in.raises = "none" => in.chunks # <<>>

\* C33: on every path of a turn the consumer of stream_ai_response receives
\* text items followed by exactly one response object, which is the last
\* item; the stream does not end without it.
C33_StreamProtocol ==
    (f_out.done /\ FromOrchestrator(f_in)) =>
        /\ ~f_out.v.raised
        /\ f_out.v.items # <<>>
        /\ \A i \in 1..Len(f_out.v.items) :
              f_out.v.items[i].kind = "response" <=> i = Len(f_out.v.items)

(***************************************************************************)
(* Two extractions merged into one session by                              *)
(* compat.update_session_with_user_input, in both orders.                  *)
(***************************************************************************)
\* the extractions drawn: every slot but the complaint, which is held like LOCATION
MergeExtractions == {d \in Dicts : d["CHIEF_COMPLAINT"] = NoneV}

MergeInputs ==
    {[session |-> d, e1 |-> a, e2 |-> b] :
        d \in Dicts, a \in MergeExtractions, b \in MergeExtractions}

InitMerge ==
    /\ f_in \in MergeInputs
    /\ f_out = NotCalled
    /\ ClassifyOff /\ TurnOff /\ DataOff /\ StepsOff /\ PathOff

\* the session after e1 then e2, after e2 then e1, after e1, and after e1 twice
MergeBothOrders ==
    /\ ~f_out.done
    /\ LET once == update_session_with_user_input(f_in.session, f_in.e1)
           other == update_session_with_user_input(f_in.session, f_in.e2)
       IN f_out' = Returned([e1e2 |-> update_session_with_user_input(once, f_in.e2),
                             e2e1 |-> update_session_with_user_input(other, f_in.e1),
                             once |-> once,
                             twice |-> update_session_with_user_input(once, f_in.e1)])
    /\ UNCHANGED <<classifyVars, turnVars, dataVars, f_in, stepVars, pathVars>>

NextMerge == MergeBothOrders

SpecMerge == InitMerge /\ [][NextMerge]_vars

\* C22: a slot that was filled before two merges keeps its value whatever
\* the order of the merges, and merging an extraction twice gives the
\* session that merging it once gives.
C22_MergeOrderIndependent ==
    f_out.done =>
        /\ \A slot \in Slots :
              f_in.session[slot] # NoneV =>
                  /\ f_out.v.e1e2[slot] = f_in.session[slot]
                  /\ f_out.v.e2e1[slot] = f_in.session[slot]
        /\ f_out.v.twice = f_out.v.once

\* a filled LOCATION is kept in both orders while the empty age slot takes
\* the value of the extraction merged first
C22_Witness ==
    /\ f_out.done
    /\ f_in.session["LOCATION"] = Str("Bologna") /\ f_in.session["age"] = NoneV
    /\ f_in.e1["LOCATION"] = Str("Modena") /\ f_in.e1["age"] = Num(0)
    /\ f_in.e2["age"] = Num(35)
    /\ f_out.v.e1e2["LOCATION"] = Str("Bologna") /\ f_out.v.e2e1["LOCATION"] = Str("Bologna")
    /\ f_out.v.e1e2["age"] = Num(0) /\ f_out.v.e2e1["age"] = Num(35)

(***************************************************************************)
(* The normalizers of frontend.InputValidator applied to drawn texts       *)
(***************************************************************************)
MaxWords == 2

ValidatorWords ==
    {<<"s","e","s","s","a","n","t","a","c","i","n","q","u","e">>,
     <<"t","r","e","n","t","a">>,
     <<"a","n","n","i">>,
     <<"4","5">>,
     <<"1","3","0">>,
     <<"B","o","l","o","g","n","a">>,
     <<"a","t","l","a","n","t","i","d","e">>,
     <<"i","n","s","o","p","p","o","r","t","a","b","i","l","e">>,
     <<"n","e","o","n","a","t","o">>,
     <<"l","a">>,
     <<"d","o","l","o","r","e">>,
     <<"p","e","t","t","o">>}

RECURSIVE JoinWords(_)
JoinWords(ws) ==
    IF ws = <<>> THEN <<>>
    ELSE IF Len(ws) = 1 THEN ws[1]
    ELSE ws[1] \o <<" ">> \o JoinWords(Tail(ws))

ValidatorTexts == {JoinWords(ws) : ws \in SeqsUpTo(ValidatorWords, MaxWords)}

ValidatorNames == {"validate_location", "validate_age", "validate_pain_scale", "validate_red_flags"}

InitValidate ==
    /\ f_in \in {[fn |-> n, text |-> t] : n \in ValidatorNames, t \in ValidatorTexts}
    /\ f_out = NotCalled
    /\ ClassifyOff /\ TurnOff /\ DataOff /\ StepsOff /\ PathOff

Validate ==
    /\ ~f_out.done
    /\ f_out' = Returned(CASE f_in.fn = "validate_location" -> validate_location(f_in.text)
                           [] f_in.fn = "validate_age" -> validate_age(f_in.text)
                           [] f_in.fn = "validate_pain_scale" -> validate_pain_scale(f_in.text)
                           [] f_in.fn = "validate_red_flags" -> validate_red_flags(f_in.text))
    /\ UNCHANGED <<classifyVars, turnVars, dataVars, f_in, stepVars, pathVars>>

NextValidate == Validate

SpecValidate == InitValidate /\ [][NextValidate]_vars

\* C23: no normalizer raises: every call returns a pair (ok, value), and a
\* text that is no known municipality makes validate_location return
\* (false, null) or a match.
C23_NormalizersNeverRaise ==
    f_out.done =>
        /\ ~f_out.v.raised
        /\ f_out.v.ok \in BOOLEAN
        /\ ~f_out.v.ok /\ f_in.fn # "validate_red_flags" => f_out.v.v = NoneV

\* the spelled-out ages among the texts, with the number they spell
SpelledAges ==
    {[text |-> <<"s","e","s","s","a","n","t","a","c","i","n","q","u","e"," ","a","n","n","i">>, age |-> 65], [text |-> <<"s","e","s","s","a","n","t","a","c","i","n","q","u","e">>, age |-> 65],
     [text |-> <<"t","r","e","n","t","a"," ","a","n","n","i">>, age |-> 30], [text |-> <<"t","r","e","n","t","a">>, age |-> 30]}

\* C24: validate_age gives a spelled-out number its own value, compound
\* words included ("sessantacinque anni" is 65), and every age returned with
\* ok = true lies in 0..120.
C24_SpelledAge ==
    (f_out.done /\ f_in.fn = "validate_age") =>
        /\ \A s \in SpelledAges :
              f_in.text = s.text => f_out.v.ok /\ f_out.v.v = Num(s.age)
        /\ f_out.v.ok => f_out.v.v.v \in 0..120

(***************************************************************************)
(* A session of render_main_application: user turns, and the buttons of a  *)
(* pending survey.  The button handler of lines 1944-2006 is taken to run  *)
(* whenever a survey is pending.                                           *)
(***************************************************************************)
SessionInputs == {<<"ho", "febbre">>, <<"svenuto">>}

SessionBodies ==
    {[BodyDefault EXCEPT !.tipo_domanda = q, !.opzioni = o] :
        q \in {"survey", "text"},
        o \in {Miss, List(<<"Bologna", "Atlantide">>), List(<<"Lieve", "Forte">>)}}

SessionOutputs == {Plain(b) : b \in SessionBodies} \cup {EmptyRaw}

\* the text of an option shown on a button
OptionText(opt) ==
    CASE opt = "Bologna" -> <<"B","o","l","o","g","n","a">>
      [] opt = "Atlantide" -> <<"A","t","l","a","n","t","i","d","e">>
      [] opt = "Lieve" -> <<"L","i","e","v","e">>
      [] opt = "Forte" -> <<"F","o","r","t","e">>
      [] opt = "Sì" -> <<"S","ì">>
      [] opt = "No" -> <<"N","o">>
      [] opt = "Non so" -> <<"N","o","n"," ","s","o">>

\* lines 1936-1944: a button of the pending survey is pressed
SurveyClick ==
    /\ pc = "idle"
    /\ ConsentGiven(gdpr_consent)
    /\ ~TriageDone
    /\ pending_survey # <<>>
    /\ SurveyAnswerOf({OptionText(pending_survey[i]) : i \in 1..Len(pending_survey)})
    /\ page' = "chat"

InitSession ==
    /\ pc = "idle"
    /\ caller = "none"
    /\ user_input = <<>>
    /\ phase = "none"
    /\ groq_client \in BOOLEAN
    /\ gemini_model \in BOOLEAN
    /\ current_phase_idx = 0
    /\ emergency_level = "none"
    /\ pending_survey = <<>>
    /\ turn_level = "none"
    /\ full_response_str = EmptyRaw
    /\ success = FALSE
    /\ attempts = <<>>
    /\ yielded = <<>>
    /\ current_step = TriageStep.LOCATION
    /\ collected_data = EmptyCollected
    /\ step_completed = {}
    /\ step_timestamps = {}
    /\ ClassifyOff /\ DataOff /\ FnOff /\ PathOff

\* lines 1841-1846: render_disposition_summary and save_structured_log
RenderDisposition ==
    /\ pc = "idle"
    /\ ConsentGiven(gdpr_consent)
    /\ TriageDone
    /\ egress' = egress \cup save_structured_log(gdpr_consent)
    /\ page' = "summary"
    /\ UNCHANGED <<classifyVars, turnVars, slotVars, storeVars, idVars, gdpr_consent, auxVars>>

NextSession ==
    \/ AcceptGdpr
    \/ RenderDisposition
    \/ ChatInputFrom(SessionInputs)
    \/ StartStream
    \/ CheckEmergency
    \/ GroqCreated
    \/ GroqTimeout
    \/ GroqError
    \/ GroqStreamEnd(SessionOutputs)
    \/ AfterGroq
    \/ GeminiReturn(SessionOutputs)
    \/ GeminiError
    \/ Finish
    \/ Consume
    \/ SurveyClick

SpecSession == InitSession /\ [][NextSession]_vars

\* C25: while a survey is pending no call of the orchestrator is started and
\* no other question replaces the pending one; the next question comes only
\* after the pending one was answered or cleared.
C25_OneActiveQuestion ==
    [][pending_survey # <<>> =>
          /\ pc' = "idle" /\ attempts' = attempts /\ yielded' = yielded
          /\ pending_survey' \in {pending_survey, <<>>}]_vars

\* a survey was answered, and the turn after it reached the orchestrator
C25_Witness ==
    /\ step_completed # {}
    /\ pending_survey = <<>>
    /\ pc = "start"

(***************************************************************************)
(* session_storage.SessionStorage: save_session, load_session and          *)
(* delete_session over the shared file sessions.json.  A call is three     *)
(* steps: the caller asks for the lock of its SessionStorage instance,     *)
(* it takes the lock and reads the file, and it writes the file back,      *)
(* releases the lock and returns.                                          *)
(***************************************************************************)
MaxOps == 3

StoreIds == {"s1", "s2", "s3"}

StoreCallers == {"t1", "t2", "p2"}

\* t1 and t2 are threads sharing one SessionStorage; p2 is another process
\* with a SessionStorage of its own on the same file
InstanceOf(c) == IF c = "p2" THEN "B" ELSE "A"

SessionOf(c) == CASE c = "t1" -> "s1" [] c = "t2" -> "s2" [] OTHER -> "s3"

StoreFields == {"messages", "current_step"}

EmptySnapshot == [k \in {} |-> <<>>]

\* the session_data dicts handed to save_session: any subset of the fields
StoreSnapshots ==
    {EmptySnapshot}
        \cup {[messages |-> m] : m \in {<<"ciao">>}}
        \cup {[current_step |-> s] : s \in {"LOCATION", "DISPOSITION"}}
        \cup {[messages |-> m, current_step |-> s] :
                 m \in {<<"ciao">>}, s \in {"LOCATION", "DISPOSITION"}}

Stamped(snapshot, now) ==
    [k \in DOMAIN snapshot \cup {"timestamp_last_update"} |->
        IF k = "timestamp_last_update" THEN now ELSE snapshot[k]]

\* the new dict is merged into the entry the id already has
SaveMerges(storage, session_id, snapshot, now) ==
    [k \in DOMAIN storage \cup {session_id} |->
        IF k # session_id THEN storage[k]
        ELSE IF session_id \in DOMAIN storage
             THEN [f \in DOMAIN storage[k] \cup DOMAIN Stamped(snapshot, now) |->
                      IF f \in DOMAIN Stamped(snapshot, now)
                      THEN Stamped(snapshot, now)[f] ELSE storage[k][f]]
             ELSE Stamped(snapshot, now)]

\* lines 151-153: the entry of session_id is replaced by the stamped dict
SaveInto(storage, session_id, snapshot, now) ==
    [k \in DOMAIN storage \cup {session_id} |->
        IF k = session_id THEN Stamped(snapshot, now) ELSE storage[k]]

DeleteFrom(storage, session_id) ==
    [k \in DOMAIN storage \ {session_id} |-> storage[k]]

\* line 176-184: storage.get(session_id), None when absent or falsy
LoadFrom(storage, session_id) ==
    IF session_id \in DOMAIN storage /\ DOMAIN storage[session_id] # {}
    THEN storage[session_id] ELSE NoneV

EmptyStorage == [k \in {} |-> EmptySnapshot]

IdleProc ==
    [pc |-> "idle", op |-> "none", id |-> "none", data |-> EmptySnapshot,
     storage |-> EmptyStorage]

StoreOps(ids, kinds) ==
    {[op |-> "save", id |-> i, data |-> d] : i \in ids, d \in StoreSnapshots}
        \cup {[op |-> k, id |-> i, data |-> EmptySnapshot] : k \in kinds \ {"save"}, i \in ids}

InFlight == Cardinality({c \in DOMAIN st_procs : st_procs[c].pc # "idle"})

\* a caller enters save_session, load_session or delete_session and blocks
\* on `with self.lock`
StoreCall(c, ops) ==
    /\ st_procs[c].pc = "idle"
    /\ Len(st_log) + InFlight < MaxOps
    /\ \E o \in ops :
          st_procs' = [st_procs EXCEPT ![c] =
                          [pc |-> "wait", op |-> o.op, id |-> o.id, data |-> o.data,
                           storage |-> EmptyStorage]]
    /\ UNCHANGED <<st_file, st_log, st_now>>
    /\ UNCHANGED <<classifyVars, turnVars, slotVars, idVars, uiVars, auxVars>>

LockHeld(inst) ==
    \E c \in DOMAIN st_procs : InstanceOf(c) = inst /\ st_procs[c].pc = "in"

\* the lock of the caller's own instance is free: take it and _read_storage
StoreEnter(c) ==
    /\ st_procs[c].pc = "wait"
    /\ ~LockHeld(InstanceOf(c))
    /\ st_procs' = [st_procs EXCEPT ![c].pc = "in", ![c].storage = st_file]
    /\ UNCHANGED <<st_file, st_log, st_now>>
    /\ UNCHANGED <<classifyVars, turnVars, slotVars, idVars, uiVars, auxVars>>

\* _write_storage(data): the file is replaced when the write succeeds and
\* is left as it was when json.dump or the move raises; the exception is
\* caught and logged inside _write_storage either way
WriteStorage(outcome, data) == IF outcome = "ok" THEN data ELSE st_file

\* the rest of the body, leaving the `with` block and returning
StoreLeave(c, outcomes) ==
    /\ st_procs[c].pc = "in"
    /\ LET p == st_procs[c] IN
       \E outcome \in outcomes :
          /\ CASE p.op = "save" ->
                    /\ st_file' = WriteStorage(outcome,
                                               SaveInto(p.storage, p.id, p.data, st_now))
                    /\ st_log' = Append(st_log, [op |-> "save", id |-> p.id, by |-> c,
                                                 data |-> Stamped(p.data, st_now),
                                                 ret |-> TRUE])
                    /\ st_now' = st_now + 1
               [] p.op = "load" ->
                    /\ st_log' = Append(st_log, [op |-> "load", id |-> p.id, by |-> c,
                                                 data |-> EmptySnapshot,
                                                 ret |-> LoadFrom(p.storage, p.id)])
                    /\ UNCHANGED <<st_file, st_now>>
               [] OTHER ->
                    /\ st_file' = IF p.id \in DOMAIN p.storage
                                  THEN WriteStorage(outcome, DeleteFrom(p.storage, p.id))
                                  ELSE st_file
                    /\ st_log' = Append(st_log, [op |-> "delete", id |-> p.id, by |-> c,
                                                 data |-> EmptySnapshot,
                                                 ret |-> p.id \in DOMAIN p.storage])
                    /\ UNCHANGED st_now
    /\ st_procs' = [st_procs EXCEPT ![c] = IdleProc]
    /\ UNCHANGED <<classifyVars, turnVars, slotVars, idVars, uiVars, auxVars>>

InitStoreOf(callers) ==
    /\ st_file = EmptyStorage
    /\ st_procs = [c \in callers |-> IdleProc]
    /\ st_log = <<>>
    /\ st_now = 1
    /\ ClassifyOff /\ TurnOff /\ SlotsOff /\ IdOff /\ UiOff /\ AuxOff

(* one caller, every write succeeds *)
SeqIds == {"s1", "s2"}

InitStore == InitStoreOf({"t1"})

NextStore ==
    \/ StoreCall("t1", StoreOps(SeqIds, {"save", "load", "delete"}))
    \/ StoreEnter("t1")
    \/ StoreLeave("t1", {"ok"})

SpecStore == InitStore /\ [][NextStore]_vars

\* what the calls before position n leave for session id: the data of the
\* last save, NoneV when there is none or a delete came after it
RECURSIVE Expected(_, _, _)
Expected(log, n, id) ==
    IF n = 0 THEN NoneV
    ELSE IF log[n].id = id /\ log[n].op = "save" THEN log[n].data
    ELSE IF log[n].id = id /\ log[n].op = "delete" THEN NoneV
    ELSE Expected(log, n - 1, id)

\* C27: load_session returns the whole snapshot of the most recent save of
\* the id, with its timestamp and nothing from an earlier save, or None when
\* the id was never saved or was deleted since; delete_session returns True
\* exactly when the session existed.
C27_LastWriterWins ==
    \A n \in 1..Len(st_log) :
        /\ st_log[n].op = "load" => st_log[n].ret = Expected(st_log, n - 1, st_log[n].id)
        /\ st_log[n].op = "delete" =>
              (st_log[n].ret <=> Expected(st_log, n - 1, st_log[n].id) # NoneV)

C27_Witness ==
    /\ Len(st_log) = 3
    /\ st_log[1].op = "save" /\ DOMAIN st_log[1].data = StoreFields \cup {"timestamp_last_update"}
    /\ st_log[2].op = "save" /\ st_log[2].id = st_log[1].id
    /\ DOMAIN st_log[2].data = {"current_step", "timestamp_last_update"}
    /\ st_log[3].op = "load" /\ st_log[3].id = st_log[1].id
    /\ st_log[3].ret = st_log[2].data

(* several callers, each saving the session of its own id *)
InitStoreConc == InitStoreOf(StoreCallers)

NextStoreConc ==
    \E c \in StoreCallers :
        \/ StoreCall(c, StoreOps({SessionOf(c)}, {"save"}))
        \/ StoreEnter(c)
        \/ StoreLeave(c, {"ok"})

SpecStoreConc == InitStoreConc /\ [][NextStoreConc]_vars

AllReturned == \A c \in DOMAIN st_procs : st_procs[c].pc = "idle"

\* C28: once all the concurrent save_session calls have returned, every
\* saved session is in the file with the data of its last save, whether the
\* callers are threads of one SessionStorage or use instances of their own.
C28_NoLostUpdate ==
    AllReturned =>
        \A id \in StoreIds :
            Expected(st_log, Len(st_log), id) # NoneV =>
                /\ id \in DOMAIN st_file
                /\ st_file[id] = Expected(st_log, Len(st_log), id)

\* the same for the callers that share one SessionStorage instance
ThreadsOfOneInstance ==
    (AllReturned /\ \A n \in 1..Len(st_log) : InstanceOf(st_log[n].by) = "A")
        => \A id \in StoreIds :
              Expected(st_log, Len(st_log), id) # NoneV =>
                  id \in DOMAIN st_file /\ st_file[id] = Expected(st_log, Len(st_log), id)

(* one caller, a write of the file may fail *)
InitStoreFail == InitStoreOf({"t1"})

NextStoreFail ==
    \/ StoreCall("t1", StoreOps(SeqIds, {"save", "load", "delete"}))
    \/ StoreEnter("t1")
    \/ StoreLeave("t1", {"ok", "fail"})

SpecStoreFail == InitStoreFail /\ [][NextStoreFail]_vars

LastCall == st_log[Len(st_log)]

\* C29: when save_session has returned True the snapshot is in the file, so
\* a save whose write failed returns False.
C29_TrueOnlyIfPersisted ==
    (st_log # <<>> /\ LastCall.op = "save" /\ LastCall.ret = TRUE) =>
        /\ LastCall.id \in DOMAIN st_file
        /\ st_file[LastCall.id] = LastCall.data

(***************************************************************************)
(* utils.id_manager.get_next_session_id over the state file id_state.json  *)
(* and the lock file id_gen.lock.  Every file operation of a call is a     *)
(* step of its own, so that calls of several processes interleave.  The    *)
(* date may change at any moment, a lock file grows older than             *)
(* LOCK_TIMEOUT_SECONDS while it exists, one may be left by a process that *)
(* died, and the write of the state file may fail.                         *)
(***************************************************************************)
MaxCalls == 4

MaxDays == 2

MAX_RETRY_ATTEMPTS == 10

IdCallers == {"p1", "p2"}

\* state.get("last_id", 0) and state.get("date", "") of a missing file
NoState == [last_id |-> 0, date |-> 0]

NoCall == [pc |-> "idle", current_date |-> 0, attempt |-> 0, state |-> NoState, calls |-> 0]

RECURSIVE DigitsOf(_)
DigitsOf(n) ==
    IF n < 10 THEN <<DigitChars[n + 1]>>
    ELSE DigitsOf(n \div 10) \o <<DigitChars[(n % 10) + 1]>>

RECURSIVE ZeroPad(_, _)
ZeroPad(t, width) == IF Len(t) >= width THEN t ELSE ZeroPad(<<"0">> \o t, width)

\* f"{next_id:04d}_{current_date}"
FormatId(next_id, current_date) ==
    [num |-> ZeroPad(DigitsOf(next_id), 4), date |-> current_date]

\* the counter goes on whatever the date
NextIdNoReset(state, current_date) == state.last_id + 1

\* lines 102-111
NextId(state, current_date) ==
    IF state.date # current_date THEN 1 ELSE state.last_id + 1

RECURSIVE CallsOf(_)
CallsOf(S) ==
    IF S = {} THEN 0
    ELSE LET c == CHOOSE x \in S : TRUE IN id_call[c].calls + CallsOf(S \ {c})

idFrame == <<classifyVars, turnVars, slotVars, storeVars, uiVars, auxVars>>

\* line 76: the date is read once, before the lock is taken
IdStart(c) ==
    /\ id_call[c].pc = "idle"
    /\ CallsOf(DOMAIN id_call) < MaxCalls
    /\ id_call' = [id_call EXCEPT ![c] = [pc |-> "lock", current_date |-> today,
                                          attempt |-> 0, state |-> NoState,
                                          calls |-> id_call[c].calls + 1]]
    /\ UNCHANGED <<id_file, id_lock, id_log, today, idFrame>>

\* lines 85-96: os.open with O_CREAT | O_EXCL creates the lock file
IdAcquire(c) ==
    /\ id_call[c].pc = "lock"
    /\ id_lock = "none"
    /\ id_lock' = "fresh"
    /\ id_call' = [id_call EXCEPT ![c].pc = "critical"]
    /\ UNCHANGED <<id_file, id_log, today, idFrame>>

\* line 142: the lock file exists, os.open raises FileExistsError
IdBlocked(c) ==
    /\ id_call[c].pc = "lock"
    /\ id_lock # "none"
    /\ id_call' = [id_call EXCEPT ![c].pc = "check"]
    /\ UNCHANGED <<id_file, id_lock, id_log, today, idFrame>>

\* the end of one round of the `for attempt in range(MAX_RETRY_ATTEMPTS)`
\* loop: the next round, or RuntimeError after the last
NextRound(call) ==
    IF call.attempt + 1 >= MAX_RETRY_ATTEMPTS
    THEN [call EXCEPT !.pc = "idle", !.attempt = 0]
    ELSE [call EXCEPT !.pc = "lock", !.attempt = call.attempt + 1]

\* lines 147-161: _is_lock_stale(lock_file, 30), False when the file is gone;
\* a lock judged stale is removed next, otherwise the call sleeps
IdCheckStale(c) ==
    /\ id_call[c].pc = "check"
    /\ id_call' = [id_call EXCEPT ![c] =
                      IF id_lock = "old" THEN [id_call[c] EXCEPT !.pc = "remove"]
                      ELSE NextRound(id_call[c])]
    /\ UNCHANGED <<id_file, id_lock, id_log, today, idFrame>>

\* lines 149-153: os.remove(lock_file) removes the lock file that is there
\* now, then `continue`
IdRemoveStale(c) ==
    /\ id_call[c].pc = "remove"
    /\ id_lock' = "none"
    /\ id_call' = [id_call EXCEPT ![c] = NextRound(id_call[c])]
    /\ UNCHANGED <<id_file, id_log, today, idFrame>>

\* lines 100-103: _read_state inside the critical section
IdRead(c) ==
    /\ id_call[c].pc = "critical"
    /\ id_call' = [id_call EXCEPT ![c].pc = "write", ![c].state = id_file]
    /\ UNCHANGED <<id_file, id_lock, id_log, today, idFrame>>

\* lines 105-126: the new state is written and the id is returned;
\* _write_state raises when the write fails and the file is left as it was
IdWrite(c) ==
    /\ id_call[c].pc = "write"
    /\ LET call == id_call[c] IN
       \E outcome \in {"ok", "fail"} :
          IF outcome = "ok"
          THEN /\ id_file' = [last_id |-> NextId(call.state, call.current_date),
                              date |-> call.current_date]
               /\ id_log' = Append(id_log,
                                   [id |-> FormatId(NextId(call.state, call.current_date),
                                                    call.current_date),
                                    date |-> call.current_date, by |-> c])
          ELSE UNCHANGED <<id_file, id_log>>
    /\ id_call' = [id_call EXCEPT ![c].pc = "release"]
    /\ UNCHANGED <<id_lock, today, idFrame>>

\* lines 128-134: the finally removes the lock file
IdRelease(c) ==
    /\ id_call[c].pc = "release"
    /\ id_lock' = "none"
    /\ id_call' = [id_call EXCEPT ![c].pc = "idle", ![c].attempt = 0]
    /\ UNCHANGED <<id_file, id_log, today, idFrame>>

\* more than LOCK_TIMEOUT_SECONDS pass since the lock file was created
LockAges ==
    /\ id_lock = "fresh"
    /\ id_lock' = "old"
    /\ UNCHANGED <<id_file, id_call, id_log, today, idFrame>>

\* midnight
Midnight ==
    /\ today < MaxDays
    /\ today' = today + 1
    /\ UNCHANGED <<id_file, id_lock, id_call, id_log, idFrame>>

InitIdsOf(callers) ==
    /\ id_file = NoState
    /\ id_lock \in {"none", "fresh"}
    /\ id_call = [c \in callers |-> NoCall]
    /\ id_log = <<>>
    /\ today = 1
    /\ ClassifyOff /\ TurnOff /\ SlotsOff /\ StoreOff /\ UiOff /\ AuxOff

NextIdsOf(callers) ==
    \/ \E c \in callers :
          \/ IdStart(c) \/ IdAcquire(c) \/ IdBlocked(c) \/ IdCheckStale(c)
          \/ IdRemoveStale(c) \/ IdRead(c) \/ IdWrite(c) \/ IdRelease(c)
    \/ LockAges
    \/ Midnight

(* one caller: the calls do not overlap *)
InitIds == InitIdsOf({"p1"})

NextIds == NextIdsOf({"p1"})

SpecIds == InitIds /\ [][NextIds]_vars

\* int(session_id.split('_')[0])
NumberOf(id) == IntOf(id.num, 1, Len(id.num))

InitIdsConc == InitIdsOf(IdCallers)

NextIdsConc == NextIdsOf(IdCallers)

SpecIdsConc == InitIdsConc /\ [][NextIdsConc]_vars

InCritical == {c \in DOMAIN id_call : id_call[c].pc \in {"critical", "write", "release"}}

\* C31: at most one caller is in the critical section at a time and no two
\* returned ids are equal, under every interleaving of the callers.
C31_MutualExclusion ==
    /\ Cardinality(InCritical) <= 1
    /\ \A m, n \in 1..Len(id_log) : m # n => id_log[m].id # id_log[n].id

(***************************************************************************)
(* frontend.get_fallback_options, asked for the step of a session that     *)
(* goes through the step machine, or for a step it does not know           *)
(***************************************************************************)
FALLBACK_MAP ==
    [LOCATION |-> <<"Bologna", "Modena", "Parma", "Reggio Emilia", "Ferrara", "Ravenna",
                    "Rimini", "Altro comune ER">>,
     CHIEF_COMPLAINT |-> <<"Dolore", "Febbre", "Trauma/Caduta", "Difficoltà respiratorie",
                           "Problemi gastrointestinali", "Altro sintomo">>,
     PAIN_SCALE |-> <<"1-3 (Lieve/Sopportabile)", "4-6 (Moderato)", "7-8 (Forte)",
                      "9-10 (Insopportabile)", "Nessun dolore">>,
     RED_FLAGS |-> <<"Sì, ho sintomi gravi", "No, nessun sintomo preoccupante",
                     "Non sono sicuro/a">>,
     ANAMNESIS |-> <<"Fornisco informazioni", "Preferisco non rispondere", "Non applicabile">>,
     DISPOSITION |-> <<"Mostra raccomandazione finale">>]

\* FALLBACK_MAP.get(step, ["Continua", "Annulla"])
get_fallback_options(step) ==
    IF step \in DOMAIN FALLBACK_MAP THEN FALLBACK_MAP[step] ELSE <<"Continua", "Annulla">>

GetFallbackOptions ==
    /\ current_step # 0
    /\ \E step \in {StepName(current_step), "UNKNOWN"} :
          /\ f_in' = step
          /\ f_out' = Returned(get_fallback_options(step))
    /\ UNCHANGED <<classifyVars, turnVars, dataVars, stepVars, pathVars>>

InitFallback == InitSteps

NextFallback == SurveyAnswer \/ GetFallbackOptions

SpecFallback == InitFallback /\ [][NextFallback]_vars

\* C32: for every step, known or not, the fallback option list has at least
\* two entries.
C32_FallbackOffersChoice == f_out.done => Len(f_out.v) >= 2

C38_NothingBeforeConsent ==
    ~gdpr_consent =>
        /\ pc = "idle" /\ attempts = <<>> /\ yielded = <<>>
        /\ egress = {}

\* after the consent a provider was called, a sync was posted and the log written
C38_Witness ==
    /\ gdpr_consent
    /\ Has(attempts, "groq") \/ Has(attempts, "gemini")
    /\ egress = {"sync", "log"}

(***************************************************************************)
(* frontend.py, render_main_application: the runs of the script as the     *)
(* page drives them.  The buttons of a survey exist only in the run that   *)
(* received the response (lines 1936-2006 are inside the branch of the     *)
(* chat submission, line 1850); a press starts a new run, in which         *)
(* pending_survey is set, so that neither the chat input (line 1849) nor   *)
(* the buttons are drawn, and nothing of lines 1945-2006 is executed.      *)
(* show_altro is never set, so lines 2008-2069 are not executed either.    *)
(***************************************************************************)
\* a press of a survey button drawn by the run that ended at line 1988: the
\* new run draws the history and skips the block of line 1849
ClickRerun ==
    /\ pc = "idle"
    /\ ConsentGiven(gdpr_consent) /\ ~TriageDone
    /\ pending_survey # <<>>
    /\ page = "error"
    /\ page' = "history"
    /\ UNCHANGED <<classifyVars, turnVars, slotVars, storeVars, idVars, gdpr_consent, egress,
                   auxVars>>

NextRun ==
    \/ AcceptGdpr
    \/ ChatInputFrom(SessionInputs)
    \/ StartStream
    \/ CheckEmergency
    \/ GroqCreated
    \/ GroqTimeout
    \/ GroqError
    \/ GroqStreamEnd(SessionOutputs)
    \/ AfterGroq
    \/ GeminiReturn(SessionOutputs)
    \/ GeminiError
    \/ Finish
    \/ Consume
    \/ ClickRerun

SpecRun == InitSession /\ [][NextRun]_vars

\* the user keeps answering whatever the page offers and every call of the
\* orchestrator returns: a step that is possible is eventually taken
FairRun == SpecRun /\ WF_vars(NextRun)

\* C39: when the user answers every question and every AI call returns, the
\* session reaches DISPOSITION with the step marked completed, and stays
\* there.
C39_InterviewTerminates ==
    (gdpr_consent /\ (groq_client \/ gemini_model)) ~> []TriageDone

\* the survey of a response was drawn, a button pressed, and the session is
\* where it was: same step, the survey still pending, no chat input
SurveyStuck ==
    /\ page = "history"
    /\ pending_survey # <<>>
    /\ current_step = TriageStep.LOCATION /\ step_completed = {}
    /\ ~ENABLED NextRun

====
